---------------------------- MODULE Spec2Model ----------------------------
(***************************************************************************)
(* A model of pgcli's pg_dumpall wrapper (pgcli/dumpall.py) and of its SSH  *)
(* tunnel helper (pgcli/ssh_tunnel.py).                                     *)
(*                                                                         *)
(* Python strings are TLA+ strings (Len, SubSeq and \o work on them); an    *)
(* Optional[T] is the empty tuple (None) or a one-element tuple <<v>>.      *)
(***************************************************************************)
EXTENDS Integers, Sequences, FiniteSets, TLC

VARIABLES
    pc,            \* position of the process inside cli() / interpreter shutdown
    args,          \* ctx.args: the tokens given to the wrapper
    ssh_tunnel,    \* --ssh-tunnel option (Optional[str])
    dsn_alias,     \* --dsn option (Optional[str])
    cfgfile,       \* what get_config() would return, or "error" when it raises
    environ,       \* os.environ entries PGHOST / PGPORT (Optional[str] each)
    sshlib,        \* SSH_TUNNEL_SUPPORT: the sshtunnel package imported
    config,        \* cli's local `config`
    parsed,        \* result tuple of parse_connection_args
    manager,       \* the SSHTunnelManager instance (its fields)
    forwarder,     \* the sshtunnel.SSHTunnelForwarder object, once created
    atexit_hooks,  \* number of stop_tunnel registrations made with atexit
    endpoint,      \* (tunnel_host, tunnel_port) returned by start_tunnel
    final_args,    \* tokens handed to subprocess.run
    child,         \* the wrapped pg_dumpall process
    exit_code,     \* exit status of the wrapper process (Optional[int])
    log,           \* formatted records handed to the logger / click.secho
    hist,          \* observation counters (who called stop_tunnel, when)
    call           \* harness for the pure functions: operation, input, output

vars == <<pc, args, ssh_tunnel, dsn_alias, cfgfile, environ, sshlib, config,
          parsed, manager, forwarder, atexit_hooks, endpoint, final_args,
          child, exit_code, log, hist, call>>

cliVars == <<pc, args, ssh_tunnel, dsn_alias, cfgfile, environ, sshlib, config,
             parsed, manager, forwarder, atexit_hooks, endpoint, final_args,
             child, exit_code, log, hist>>

None == <<>>
Some(v) == <<v>>
IsNone(o) == o = <<>>
Val(o) == o[1]

(***************************************************************************)
(* Python's str operations used by the code.                                *)
(***************************************************************************)
Truthy(o) == o # None /\ Val(o) # ""

startswith(s, p) == Len(s) >= Len(p) /\ SubSeq(s, 1, Len(p)) = p

contains(s, p) == \E i \in 1..(Len(s) - Len(p) + 1) : SubSeq(s, i, i + Len(p) - 1) = p

\* index of the first occurrence of p in s, 0 when there is none
find(s, p) ==
    IF contains(s, p)
    THEN CHOOSE i \in 1..(Len(s) - Len(p) + 1) :
            /\ SubSeq(s, i, i + Len(p) - 1) = p
            /\ \A j \in 1..(i - 1) : SubSeq(s, j, j + Len(p) - 1) # p
    ELSE 0

\* index of the last occurrence of p in s, 0 when there is none
rfind(s, p) ==
    IF contains(s, p)
    THEN CHOOSE i \in 1..(Len(s) - Len(p) + 1) :
            /\ SubSeq(s, i, i + Len(p) - 1) = p
            /\ \A j \in (i + 1)..(Len(s) - Len(p) + 1) : SubSeq(s, j, j + Len(p) - 1) # p
    ELSE 0

\* s.split(sep, 1)[1] for a string that contains sep
after_first(s, sep) == SubSeq(s, find(s, sep) + Len(sep), Len(s))

before_first(s, sep) == SubSeq(s, 1, find(s, sep) - 1)

IsSpace(c) == c \in {" ", "\t", "\n", "\r"}

RECURSIVE split_from(_, _, _)
\* s.split(): the maximal runs of non-whitespace characters, in order
split_from(s, i, cur) ==
    IF i > Len(s)
    THEN IF cur = "" THEN <<>> ELSE <<cur>>
    ELSE IF IsSpace(SubSeq(s, i, i))
         THEN IF cur = "" THEN split_from(s, i + 1, "")
              ELSE <<cur>> \o split_from(s, i + 1, "")
         ELSE split_from(s, i + 1, cur \o SubSeq(s, i, i))

split(s) == split_from(s, 1, "")

RECURSIVE join(_, _)
\* sep.join(parts)
join(sep, parts) ==
    IF Len(parts) = 0 THEN ""
    ELSE IF Len(parts) = 1 THEN parts[1]
    ELSE parts[1] \o sep \o join(sep, Tail(parts))

RECURSIVE strip(_)
strip(s) ==
    IF s = "" THEN ""
    ELSE IF IsSpace(SubSeq(s, 1, 1)) THEN strip(SubSeq(s, 2, Len(s)))
    ELSE IF IsSpace(SubSeq(s, Len(s), Len(s))) THEN strip(SubSeq(s, 1, Len(s) - 1))
    ELSE s

Digits == <<"0", "1", "2", "3", "4", "5", "6", "7", "8", "9">>

IsDigit(c) == \E d \in 1..10 : Digits[d] = c

DigitVal(c) == (CHOOSE d \in 1..10 : Digits[d] = c) - 1

RECURSIVE digits_value(_, _)
digits_value(s, acc) ==
    IF s = "" THEN acc
    ELSE digits_value(SubSeq(s, 2, Len(s)), acc * 10 + DigitVal(SubSeq(s, 1, 1)))

AllDigits(s) == Len(s) > 0 /\ \A i \in 1..Len(s) : IsDigit(SubSeq(s, i, i))

\* int(s): surrounding whitespace is ignored, one optional sign, then decimal
\* digits.  Anything else raises ValueError: the result is None.
\* (Digit-group underscores, which int() also accepts, are not modelled.)
int(s) ==
    LET t == strip(s)
        signed == Len(t) > 0 /\ SubSeq(t, 1, 1) \in {"+", "-"}
        body == IF signed THEN SubSeq(t, 2, Len(t)) ELSE t
    IN  IF ~AllDigits(body) THEN None
        ELSE IF signed /\ SubSeq(t, 1, 1) = "-" THEN Some(0 - digits_value(body, 0))
        ELSE Some(digits_value(body, 0))

RECURSIVE nat_str(_)
nat_str(n) == IF n < 10 THEN Digits[n + 1] ELSE nat_str(n \div 10) \o Digits[(n % 10) + 1]

\* str(n) for an int
str(n) == IF n < 0 THEN "-" \o nat_str(0 - n) ELSE nat_str(n)


Upper == "ABCDEFGHIJKLMNOPQRSTUVWXYZ"
Lower == "abcdefghijklmnopqrstuvwxyz"

lower_char(c) ==
    IF contains(Upper, c) /\ Len(c) = 1
    THEN LET i == find(Upper, c) IN SubSeq(Lower, i, i)
    ELSE c

RECURSIVE lower(_)
\* s.lower()
lower(s) == IF s = "" THEN "" ELSE lower_char(SubSeq(s, 1, 1)) \o lower(SubSeq(s, 2, Len(s)))

(***************************************************************************)
(* A dict is the sequence of its (key, value) items in insertion order;     *)
(* its keys are distinct.                                                   *)
(***************************************************************************)
RECURSIVE dict_get(_, _)
\* d.get(k): Optional value
dict_get(d, k) ==
    IF Len(d) = 0 THEN None
    ELSE IF d[1][1] = k THEN Some(d[1][2])
    ELSE dict_get(Tail(d), k)

(***************************************************************************)
(* Python's re, for the patterns used here: literal characters, an escaped  *)
(* character, ".", and a "*" after any of them.  RegexMatch(p, s) is true   *)
(* when p matches exactly the string s.                                     *)
(***************************************************************************)
RECURSIVE RegexMatch(_, _)
RegexMatch(p, s) ==
    IF p = "" THEN s = ""
    ELSE LET esc == Len(p) >= 2 /\ SubSeq(p, 1, 1) = "\\"
             alen == IF esc THEN 2 ELSE 1
             lit == SubSeq(p, alen, alen)
             starred == Len(p) > alen /\ SubSeq(p, alen + 1, alen + 1) = "*"
             rest == SubSeq(p, alen + (IF starred THEN 2 ELSE 1), Len(p))
             hit == /\ s # ""
                    /\ IF ~esc /\ lit = "." THEN SubSeq(s, 1, 1) # "\n"
                       ELSE SubSeq(s, 1, 1) = lit
         IN  IF starred
             THEN RegexMatch(rest, s) \/ (hit /\ RegexMatch(p, SubSeq(s, 2, Len(s))))
             ELSE hit /\ RegexMatch(rest, SubSeq(s, 2, Len(s)))

\* re.search(p, s): some substring of s is matched (what fullmatch is not)
re_search(p, s) ==
    \E i \in 1..(Len(s) + 1) : \E j \in (i - 1)..Len(s) : RegexMatch(p, SubSeq(s, i, j))

\* re.fullmatch(p, s) is not None
re_fullmatch(p, s) == RegexMatch(p, s)

(***************************************************************************)
(* SSHTunnelManager                                                         *)
(***************************************************************************)
\* SSHTunnelManager.__init__; `tunnel` holds no forwarder yet
SSHTunnelManager(url, host_rules, dsn_rules, allow_agent) ==
    [ ssh_tunnel_url        |-> url,
      ssh_tunnel_config     |-> IF IsNone(host_rules) THEN <<>> ELSE Val(host_rules),
      dsn_ssh_tunnel_config |-> IF IsNone(dsn_rules) THEN <<>> ELSE Val(dsn_rules),
      tunnel                |-> FALSE,
      allow_agent           |-> allow_agent ]

\* a loaded config: its two sections, each Optional[dict]
Config(ssh_tunnels, dsn_ssh_tunnels) ==
    [ ssh_tunnels |-> ssh_tunnels, dsn_ssh_tunnels |-> dsn_ssh_tunnels ]

EmptyConfig == Config(None, None)

get_tunnel_manager_from_config(cfg, url) ==
    LET ssh_tunnels_config == IF IsNone(cfg.ssh_tunnels) THEN <<>> ELSE Val(cfg.ssh_tunnels)
        setting == dict_get(ssh_tunnels_config, "allow_agent")
        allow_agent == lower(IF IsNone(setting) THEN "True" ELSE Val(setting)) = "true"
    IN  SSHTunnelManager(url, Some(ssh_tunnels_config), cfg.dsn_ssh_tunnels, allow_agent)

RECURSIVE first_rule(_, _, _)
\* the for loop over d.items(): index of the first item whose key matches, or 0
first_rule(rules, s, i) ==
    IF i > Len(rules) THEN 0
    ELSE IF re_fullmatch(rules[i][1], s) THEN i
    ELSE first_rule(rules, s, i + 1)

\* find_tunnel_url with the host rules consulted before the DSN rules
find_tunnel_url_host_first(self, host, alias) ==
    IF Truthy(self.ssh_tunnel_url)
    THEN [ url |-> self.ssh_tunnel_url, log |-> <<>> ]
    ELSE LET drules == self.dsn_ssh_tunnel_config
             hrules == self.ssh_tunnel_config
             d == IF Truthy(alias) /\ Len(drules) > 0 THEN first_rule(drules, Val(alias), 1) ELSE 0
             h == IF Truthy(host) /\ Len(hrules) > 0 THEN first_rule(hrules, Val(host), 1) ELSE 0
         IN  IF h > 0 THEN [ url |-> Some(hrules[h][2]), log |-> <<>> ]
             ELSE IF d > 0 THEN [ url |-> Some(drules[d][2]), log |-> <<>> ]
             ELSE [ url |-> None, log |-> <<>> ]

\* find_tunnel_url that consults the host rules only when no alias is supplied
find_tunnel_url_alias_only(self, host, alias) ==
    IF Truthy(self.ssh_tunnel_url)
    THEN [ url |-> self.ssh_tunnel_url, log |-> <<>> ]
    ELSE LET drules == self.dsn_ssh_tunnel_config
             hrules == self.ssh_tunnel_config
             d == IF Truthy(alias) /\ Len(drules) > 0 THEN first_rule(drules, Val(alias), 1) ELSE 0
             h == IF Truthy(host) /\ Len(hrules) > 0 THEN first_rule(hrules, Val(host), 1) ELSE 0
         IN  IF d > 0 THEN [ url |-> Some(drules[d][2]), log |-> <<>> ]
             ELSE IF h > 0 /\ ~Truthy(alias) THEN [ url |-> Some(hrules[h][2]), log |-> <<>> ]
             ELSE [ url |-> None, log |-> <<>> ]

\* find_tunnel_url: the URL found (Optional[str]) and the records it logs
find_tunnel_url(self, host, alias) ==
    IF Truthy(self.ssh_tunnel_url)
    THEN [ url |-> self.ssh_tunnel_url, log |-> <<>> ]
    ELSE LET drules == self.dsn_ssh_tunnel_config
             hrules == self.ssh_tunnel_config
             d == IF Truthy(alias) /\ Len(drules) > 0 THEN first_rule(drules, Val(alias), 1) ELSE 0
             h == IF Truthy(host) /\ Len(hrules) > 0 THEN first_rule(hrules, Val(host), 1) ELSE 0
         IN  IF d > 0
             THEN [ url |-> Some(drules[d][2]),
                    log |-> << "Found SSH tunnel for DSN '" \o Val(alias) \o "' matching '"
                               \o drules[d][1] \o "': " \o drules[d][2] >> ]
             ELSE IF h > 0
             THEN [ url |-> Some(hrules[h][2]),
                    log |-> << "Found SSH tunnel for host '" \o Val(host) \o "' matching '"
                               \o hrules[h][1] \o "': " \o hrules[h][2] >> ]
             ELSE [ url |-> None, log |-> <<>> ]

(***************************************************************************)
(* dumpall.py: parse_connection_args                                        *)
(***************************************************************************)
DefaultHost == "localhost"
DefaultPort == 5432

\* os.environ.get(name, default) for PGHOST
env_host(env) == IF IsNone(env.PGHOST) THEN DefaultHost ELSE Val(env.PGHOST)

\* int(os.environ.get("PGPORT", 5432)): Optional[int], None when int() raises
env_port(env) == IF IsNone(env.PGPORT) THEN Some(DefaultPort) ELSE int(Val(env.PGPORT))

\* the locals of parse_connection_args; `error` holds the text int() rejected
ParseState(host, port, remaining_args, has_host, has_port, error) ==
    [ host |-> host, port |-> port, remaining_args |-> remaining_args,
      has_host |-> has_host, has_port |-> has_port, error |-> error ]

\* a host occurrence that does not replace a host found earlier
set_host_once(st, v) == IF st.has_host THEN st ELSE [st EXCEPT !.host = v, !.has_host = TRUE]

\* host = v; has_host = True
set_host(st, v) == [st EXCEPT !.host = v, !.has_host = TRUE]

\* port = int(text); has_port = True  (or ValueError)
set_port(st, text) ==
    IF IsNone(int(text)) THEN [st EXCEPT !.error = Some(text)]
    ELSE [st EXCEPT !.port = Val(int(text)), !.has_port = TRUE]

RECURSIVE scan_parts(_, _, _)
\* for part in dbname.split(): host= and port= fields update the locals
scan_parts(parts, k, st) ==
    IF k > Len(parts) \/ ~IsNone(st.error) THEN st
    ELSE IF startswith(parts[k], "host=")
         THEN scan_parts(parts, k + 1, set_host(st, after_first(parts[k], "=")))
    ELSE IF startswith(parts[k], "port=")
         THEN scan_parts(parts, k + 1, set_port(st, after_first(parts[k], "=")))
    ELSE scan_parts(parts, k + 1, st)

\* the connection-string branch: the fields are looked at only if "host=" in dbname
scan_dbname(dbname, st) ==
    IF contains(dbname, "host=") THEN scan_parts(split(dbname), 1, st) ELSE st

\* remaining_args.append(arg) where the value of a flag is left out
push_flag_only(st, toks) ==
    IF ~IsNone(st.error) THEN st
    ELSE [st EXCEPT !.remaining_args = Append(st.remaining_args, toks[1])]

\* remaining_args.extend([arg, value]) / remaining_args.append(arg)
push(st, toks) ==
    IF ~IsNone(st.error) THEN st
    ELSE [st EXCEPT !.remaining_args = st.remaining_args \o toks]

RECURSIVE parse_loop(_, _, _)
\* the while loop, from index i (1-based)
parse_loop(a, i, st) ==
    IF i > Len(a) \/ ~IsNone(st.error) THEN st
    ELSE LET arg == a[i]
             more == i + 1 <= Len(a)
         IN  IF arg \in {"-h", "--host"} /\ more
             THEN parse_loop(a, i + 2, push(set_host(st, a[i + 1]), <<arg, a[i + 1]>>))
             ELSE IF startswith(arg, "--host=")
             THEN parse_loop(a, i + 1, push(set_host(st, after_first(arg, "=")), <<arg>>))
             ELSE IF arg \in {"-p", "--port"} /\ more
             THEN parse_loop(a, i + 2, push(set_port(st, a[i + 1]), <<arg, a[i + 1]>>))
             ELSE IF startswith(arg, "--port=")
             THEN parse_loop(a, i + 1, push(set_port(st, after_first(arg, "=")), <<arg>>))
             ELSE IF arg \in {"-d", "--dbname"} /\ more
             THEN parse_loop(a, i + 2, push(scan_dbname(a[i + 1], st), <<arg, a[i + 1]>>))
             ELSE IF startswith(arg, "--dbname=")
             THEN parse_loop(a, i + 1, push(scan_dbname(after_first(arg, "="), st), <<arg>>))
             ELSE parse_loop(a, i + 1, push(st, <<arg>>))

\* parse_connection_args(args) under the environment env.  `error` is None when
\* the function returns and the rejected text when int() raised ValueError.
parse_connection_args(a, env) ==
    IF IsNone(env_port(env))
    THEN ParseState(env_host(env), 0, <<>>, FALSE, FALSE, env.PGPORT)
    ELSE parse_loop(a, 1, ParseState(env_host(env), Val(env_port(env)), <<>>, FALSE, FALSE, None))

(***************************************************************************)
(* dumpall.py: build_tunneled_args                                          *)
(***************************************************************************)
RECURSIVE rewrite_parts(_, _, _)
\* the new_parts list built from dbname.split()
rewrite_parts(parts, tunnel_host, tunnel_port) ==
    IF Len(parts) = 0 THEN <<>>
    ELSE LET part == parts[1]
             new == IF startswith(part, "host=") THEN "host=" \o tunnel_host
                    ELSE IF startswith(part, "port=") THEN "port=" \o str(tunnel_port)
                    ELSE part
         IN  <<new>> \o rewrite_parts(Tail(parts), tunnel_host, tunnel_port)

rewrite_dbname(dbname, tunnel_host, tunnel_port) ==
    IF contains(dbname, "host=")
    THEN join(" ", rewrite_parts(split(dbname), tunnel_host, tunnel_port))
    ELSE dbname

RECURSIVE build_loop(_, _, _, _)
\* the while loop of build_tunneled_args, from index i (1-based)
build_loop(a, i, tunnel_host, tunnel_port) ==
    IF i > Len(a) THEN <<>>
    ELSE LET arg == a[i]
         IN  IF arg \in {"-h", "--host"}
             THEN <<"-h", tunnel_host>> \o build_loop(a, i + 2, tunnel_host, tunnel_port)
             ELSE IF startswith(arg, "--host=")
             THEN <<"--host=" \o tunnel_host>> \o build_loop(a, i + 1, tunnel_host, tunnel_port)
             ELSE IF arg \in {"-p", "--port"}
             THEN <<"-p", str(tunnel_port)>> \o build_loop(a, i + 2, tunnel_host, tunnel_port)
             ELSE IF startswith(arg, "--port=")
             THEN <<"--port=" \o str(tunnel_port)>> \o build_loop(a, i + 1, tunnel_host, tunnel_port)
             ELSE IF arg \in {"-d", "--dbname"} /\ i + 1 <= Len(a)
             THEN <<"-d", rewrite_dbname(a[i + 1], tunnel_host, tunnel_port)>>
                  \o build_loop(a, i + 2, tunnel_host, tunnel_port)
             ELSE IF startswith(arg, "--dbname=")
             THEN (IF contains(after_first(arg, "="), "host=")
                   THEN <<"--dbname=" \o rewrite_dbname(after_first(arg, "="), tunnel_host, tunnel_port)>>
                   ELSE <<arg>>)
                  \o build_loop(a, i + 1, tunnel_host, tunnel_port)
             ELSE <<arg>> \o build_loop(a, i + 1, tunnel_host, tunnel_port)

\* build_tunneled_args adding the missing port pair before the missing host pair
build_tunneled_args_port_first(original_args, tunnel_host, tunnel_port, has_host, has_port) ==
    build_loop(original_args, 1, tunnel_host, tunnel_port)
        \o (IF has_port THEN <<>> ELSE <<"-p", str(tunnel_port)>>)
        \o (IF has_host THEN <<>> ELSE <<"-h", tunnel_host>>)

build_tunneled_args(original_args, tunnel_host, tunnel_port, has_host, has_port) ==
    build_loop(original_args, 1, tunnel_host, tunnel_port)
        \o (IF has_host THEN <<>> ELSE <<"-h", tunnel_host>>)
        \o (IF has_port THEN <<>> ELSE <<"-p", str(tunnel_port)>>)

(***************************************************************************)
(* urllib.parse.urlparse, for the attributes start_tunnel reads             *)
(***************************************************************************)
RECURSIVE netloc_of(_)
\* the authority part: up to the first of "/", "?", "#"
netloc_of(rest) ==
    IF rest = "" \/ SubSeq(rest, 1, 1) \in {"/", "?", "#"} THEN ""
    ELSE SubSeq(rest, 1, 1) \o netloc_of(SubSeq(rest, 2, Len(rest)))

\* username, password, hostname (Optional[str]) and port (Optional[int]) of a URL
\* that has a scheme
urlparse(url) ==
    LET netloc == netloc_of(after_first(url, "://"))
        at == rfind(netloc, "@")
        userinfo == IF at = 0 THEN None ELSE Some(SubSeq(netloc, 1, at - 1))
        hostinfo == SubSeq(netloc, at + 1, Len(netloc))
        host == IF contains(hostinfo, ":") THEN before_first(hostinfo, ":") ELSE hostinfo
        porttext == IF contains(hostinfo, ":") THEN after_first(hostinfo, ":") ELSE ""
    IN  [ username |-> IF IsNone(userinfo) THEN None
                       ELSE IF contains(Val(userinfo), ":")
                            THEN Some(before_first(Val(userinfo), ":"))
                            ELSE userinfo,
          password |-> IF IsNone(userinfo) \/ ~contains(Val(userinfo), ":") THEN None
                       ELSE Some(after_first(Val(userinfo), ":")),
          hostname |-> IF host = "" THEN None ELSE Some(lower(host)),
          port     |-> IF porttext = "" THEN None ELSE int(porttext) ]

DefaultSSHPort == 22
Masked == "***"

repr(s) == "'" \o s \o "'"

opt_repr(o) == IF IsNone(o) THEN "None" ELSE repr(Val(o))

\* the value logged for ssh_password: the marker, never the value
log_password(pw) == repr(Masked)

\* "Add protocol if missing"
with_scheme(tunnel_url) ==
    IF contains(tunnel_url, "://") THEN tunnel_url ELSE "ssh://" \o tunnel_url

\* the params dict of start_tunnel, for the keys that vary
tunnel_params(self, tunnel_url, host, port) ==
    LET tunnel_info == urlparse(with_scheme(tunnel_url))
    IN  [ remote_bind_address |-> <<host, port>>,
          ssh_address_or_host |-> << tunnel_info.hostname,
                                     IF IsNone(tunnel_info.port) \/ tunnel_info.port = Some(0)
                                     THEN DefaultSSHPort ELSE Val(tunnel_info.port) >>,
          allow_agent         |-> self.allow_agent,
          ssh_username        |-> IF Truthy(tunnel_info.username) THEN tunnel_info.username ELSE None,
          ssh_password        |-> IF Truthy(tunnel_info.password) THEN tunnel_info.password ELSE None ]

\* "Creating SSH tunnel with params: %r" % log_params
params_record(params) ==
    "Creating SSH tunnel with params: {'remote_bind_address': ("
        \o repr(params.remote_bind_address[1]) \o ", " \o str(params.remote_bind_address[2])
        \o "), 'ssh_address_or_host': (" \o opt_repr(params.ssh_address_or_host[1]) \o ", "
        \o str(params.ssh_address_or_host[2]) \o "), 'allow_agent': "
        \o (IF params.allow_agent THEN "True" ELSE "False")
        \o (IF IsNone(params.ssh_username) THEN ""
            ELSE ", 'ssh_username': " \o repr(Val(params.ssh_username)))
        \o (IF IsNone(params.ssh_password) THEN ""
            ELSE ", 'ssh_password': " \o log_password(Val(params.ssh_password)))
        \o "}"

(***************************************************************************)
(* The forwarder (sshtunnel.SSHTunnelForwarder) as the code uses it:        *)
(* created, start(), is_active, local_bind_ports[0], stop().                *)
(***************************************************************************)
NoForwarder ==
    [ created |-> FALSE, is_active |-> FALSE, start_calls |-> 0, stop_calls |-> 0,
      local_port |-> 0, params |-> None ]

\* sshtunnel.SSHTunnelForwarder(**params)
SSHTunnelForwarder(params) == [NoForwarder EXCEPT !.created = TRUE, !.params = Some(params)]

\* start() called again when the first call left the forwarder not active
forwarder_start_retry(fwd, active, local_port) ==
    [fwd EXCEPT !.start_calls = @ + (IF active THEN 1 ELSE 2), !.is_active = active,
                !.local_port = IF active THEN local_port ELSE 0]

\* tunnel.start() returning: the bind is live on local_port, or it is not
forwarder_start(fwd, active, local_port) ==
    [fwd EXCEPT !.start_calls = @ + 1, !.is_active = active,
                !.local_port = IF active THEN local_port ELSE 0]

\* tunnel.stop()
forwarder_stop(fwd) == [fwd EXCEPT !.stop_calls = @ + 1, !.is_active = FALSE]

\* stop_tunnel with the guard dropped: stops whatever self.tunnel holds
stop_tunnel_unguarded(self, fwd) ==
    IF fwd.created
    THEN [ manager |-> [self EXCEPT !.tunnel = FALSE], forwarder |-> forwarder_stop(fwd),
           log |-> <<"Stopping SSH tunnel">> ]
    ELSE [ manager |-> self, forwarder |-> fwd, log |-> <<>> ]

\* stop_tunnel that forgets to stop the forwarder
stop_tunnel_forgetful(self, fwd) ==
    [ manager |-> [self EXCEPT !.tunnel = FALSE], forwarder |-> fwd, log |-> <<>> ]

\* SSHTunnelManager.stop_tunnel: the manager and forwarder after the call
stop_tunnel(self, fwd) ==
    IF self.tunnel /\ fwd.is_active
    THEN [ manager |-> [self EXCEPT !.tunnel = FALSE], forwarder |-> forwarder_stop(fwd),
           log |-> <<"Stopping SSH tunnel">> ]
    ELSE [ manager |-> self, forwarder |-> fwd, log |-> <<>> ]

(***************************************************************************)
(* Inputs of one invocation of the wrapper                                  *)
(***************************************************************************)
MaxCliArgs == 2

SeqsUpTo(S, n) == UNION { [1..k -> S] : k \in 0..n }

CliTokens ==
    { "-h", "db1", "-p", "7", "--port=x", "--dbname=host=db1 port=7", "-g",
      "-d", "--dbname=port=x" }

Password == "pw9"

OverridePool == { None, Some("ssh://u:" \o Password \o "@bastion:2222") }

AliasPool == { None, Some("prod") }

EnvPool == { [PGHOST |-> None, PGPORT |-> None], [PGHOST |-> Some("db1"), PGPORT |-> None] }

\* get_config(): None when it raises, else the loaded sections
ConfigPool ==
    { None,
      Some(EmptyConfig),
      Some(Config(Some(<< <<"db.*", "v:" \o Password \o "@gw">>, <<"allow_agent", "False">> >>),
                  Some(<< <<"pro.*", "w:" \o Password \o "@jump:22">> >>))) }

LocalPorts == { 7, 55123 }

RetCodes == { 0, 1, 42 }

ExitSetupFailure == 1
ExitNotFound == 1
ExitInterrupt == 130
\* click turns a KeyboardInterrupt that leaves cli() into Abort: exit status 1;
\* an exception that leaves cli() ends the interpreter with status 1
ExitAbort == 1
ExitUncaught == 1

NoParse == ParseState("", 0, <<>>, FALSE, FALSE, None)
NoManager == SSHTunnelManager(None, None, None, TRUE)
NoChild == [ state |-> "none", args |-> <<>>, returncode |-> None ]

NoHist ==
    [ returned |-> FALSE,      \* start_tunnel returned a local tunnel endpoint
      cli_stops |-> 0,         \* stop_tunnel calls made by cli's finally block
      hook_stops |-> 0,        \* stop_tunnel calls made by the atexit hook
      spawns |-> 0,            \* children spawned by subprocess.run
      interrupted |-> None,    \* where a KeyboardInterrupt was raised
      cause |-> "none" ]       \* why the invocation ended

IdleCall == [ op |-> "none" ]

Init ==
    /\ pc = "cli"
    /\ args \in SeqsUpTo(CliTokens, MaxCliArgs)
    /\ ssh_tunnel \in OverridePool
    /\ dsn_alias \in AliasPool
    /\ cfgfile \in ConfigPool
    /\ environ \in EnvPool
    /\ sshlib \in BOOLEAN
    /\ config = EmptyConfig
    /\ parsed = NoParse
    /\ manager = NoManager
    /\ forwarder = NoForwarder
    /\ atexit_hooks = 0
    /\ endpoint = None
    /\ final_args = <<>>
    /\ child = NoChild
    /\ exit_code = None
    /\ log = <<>>
    /\ hist = NoHist
    /\ call = IdleCall

(***************************************************************************)
(* cli(): one action per step of the function, in program order            *)
(***************************************************************************)
\* final_args chosen as if a tunnel were always in use
always_tunneled_args(pg_dumpall_args, p, tunnel_host, tunnel_port) ==
    build_tunneled_args(p.remaining_args, tunnel_host, tunnel_port, p.has_host, p.has_port)

\* the if/else that picks final_args from the endpoint start_tunnel returned
choose_final_args(pg_dumpall_args, p, tunnel_host, tunnel_port) ==
    IF tunnel_host # p.host \/ tunnel_port # p.port
    THEN build_tunneled_args(p.remaining_args, tunnel_host, tunnel_port, p.has_host, p.has_port)
    ELSE pg_dumpall_args

\* an exit status that only tells success from failure
exit_status_flag(returncode) == IF returncode = 0 THEN 0 ELSE 1

\* sys.exit(result.returncode)
exit_status(returncode) == returncode

\* sys.exit(code) or an exception that leaves cli() outside the try block
Leave(code, cause) ==
    /\ exit_code' = Some(code)
    /\ hist' = [hist EXCEPT !.cause = cause]
    /\ pc' = "exiting"

\* a failure of get_config() that is not caught and ends the invocation
LoadConfig_abort ==
    /\ pc = "cli"
    /\ IF IsNone(cfgfile)
       THEN /\ Leave(ExitUncaught, "config_error")
            /\ UNCHANGED <<config, log>>
       ELSE /\ config' = Val(cfgfile)
            /\ pc' = "parse"
            /\ UNCHANGED <<exit_code, hist, log>>
    /\ UNCHANGED <<args, ssh_tunnel, dsn_alias, cfgfile, environ, sshlib, parsed, manager,
                   forwarder, atexit_hooks, endpoint, final_args, child, call>>

\* config = get_config(), or {} with a warning when it raises
LoadConfig ==
    /\ pc = "cli"
    /\ config' = IF IsNone(cfgfile) THEN EmptyConfig ELSE Val(cfgfile)
    /\ log' = IF IsNone(cfgfile) THEN Append(log, "Could not load pgcli config: error") ELSE log
    /\ pc' = "parse"
    /\ UNCHANGED <<args, ssh_tunnel, dsn_alias, cfgfile, environ, sshlib, parsed, manager,
                   forwarder, atexit_hooks, endpoint, final_args, child, exit_code, hist, call>>

\* parse_connection_args(pg_dumpall_args); a ValueError leaves cli()
ParseArgs ==
    /\ pc = "parse"
    /\ LET r == parse_connection_args(args, environ)
       IN  IF IsNone(r.error)
           THEN /\ parsed' = r
                /\ log' = Append(log, "Parsed connection: host=" \o r.host \o ", port=" \o str(r.port))
                /\ pc' = "manager"
                /\ UNCHANGED <<exit_code, hist>>
           ELSE /\ Leave(ExitUncaught, "parse_error")
                /\ UNCHANGED <<parsed, log>>
    /\ UNCHANGED <<args, ssh_tunnel, dsn_alias, cfgfile, environ, sshlib, config, manager,
                   forwarder, atexit_hooks, endpoint, final_args, child, call>>

\* tunnel_manager = get_tunnel_manager_from_config(config, ssh_tunnel_url=ssh_tunnel)
MakeManager ==
    /\ pc = "manager"
    /\ manager' = get_tunnel_manager_from_config(config, ssh_tunnel)
    /\ pc' = "start_tunnel"
    /\ UNCHANGED <<args, ssh_tunnel, dsn_alias, cfgfile, environ, sshlib, config, parsed,
                   forwarder, atexit_hooks, endpoint, final_args, child, exit_code, log, hist, call>>

\* the URL's port text is not a port: urlparse(...).port raises ValueError
bad_url_port(tunnel_url) ==
    LET netloc == netloc_of(after_first(with_scheme(tunnel_url), "://"))
        hostinfo == SubSeq(netloc, rfind(netloc, "@") + 1, Len(netloc))
    IN  /\ contains(hostinfo, ":")
        /\ after_first(hostinfo, ":") # ""
        /\ LET n == int(after_first(hostinfo, ":")) IN IsNone(n) \/ Val(n) < 0 \/ Val(n) > 65535

\* start_tunnel up to the creation of the forwarder: resolve the URL, return
\* (host, port) when there is none, exit when the package is missing
StartTunnelResolve ==
    /\ pc = "start_tunnel"
    /\ LET found == find_tunnel_url(manager, Some(parsed.host), dsn_alias)
       IN  IF ~Truthy(found.url)
           THEN /\ log' = log \o found.log \o
                       << "No SSH tunnel configured for host=" \o parsed.host
                          \o ", dsn=" \o (IF IsNone(dsn_alias) THEN "None" ELSE Val(dsn_alias)) >>
                /\ endpoint' = Some(<<parsed.host, parsed.port>>)
                /\ pc' = "build"
                /\ UNCHANGED <<manager, forwarder, exit_code, hist>>
           ELSE IF ~sshlib
           THEN /\ log' = log \o found.log \o
                       << "Cannot open SSH tunnel, \"sshtunnel\" package was not found." >>
                /\ Leave(ExitSetupFailure, "no_sshtunnel")
                /\ UNCHANGED <<manager, forwarder, endpoint>>
           ELSE IF bad_url_port(Val(found.url))
           THEN /\ log' = log \o found.log
                /\ Leave(ExitUncaught, "bad_url")
                /\ UNCHANGED <<manager, forwarder, endpoint>>
           ELSE LET params == tunnel_params(manager, Val(found.url), parsed.host, parsed.port)
                IN  /\ log' = log \o found.log
                           \o << params_record(params), "SSH tunnel created, calling start()..." >>
                    /\ forwarder' = SSHTunnelForwarder(params)
                    /\ manager' = [manager EXCEPT !.tunnel = TRUE]
                    /\ pc' = "starting"
                    /\ UNCHANGED <<endpoint, exit_code, hist>>
    /\ UNCHANGED <<args, ssh_tunnel, dsn_alias, cfgfile, environ, sshlib, config, parsed,
                   atexit_hooks, final_args, child, call>>

\* tunnel.start() and the is_active check: start() raises, returns with the
\* forwarder not active, or returns with the bind live on some local port
ForwarderStart ==
    /\ pc = "starting"
    /\ \E outcome \in {"raises", "inactive", "active"} : \E lp \in LocalPorts :
        IF outcome = "active"
        THEN /\ forwarder' = forwarder_start(forwarder, TRUE, lp)
             /\ log' = log \o << "SSH tunnel start() returned, is_active: True",
                                 "SSH tunnel verified active" >>
             /\ pc' = "started"
             /\ UNCHANGED <<exit_code, hist>>
        ELSE /\ forwarder' = forwarder_start(forwarder, FALSE, lp)
             /\ log' = log \o
                    (IF outcome = "raises"
                     THEN << "SSH tunnel failed: Could not establish session to SSH gateway" >>
                     ELSE << "SSH tunnel start() returned, is_active: False",
                             "SSH tunnel failed: SSH tunnel failed to start (is_active=False)" >>)
             /\ Leave(ExitSetupFailure, "tunnel_failed")
    /\ UNCHANGED <<args, ssh_tunnel, dsn_alias, cfgfile, environ, sshlib, config, parsed,
                   manager, atexit_hooks, endpoint, final_args, child, call>>

\* atexit.register(self.stop_tunnel); return "127.0.0.1", local_port
StartTunnelReturn ==
    /\ pc = "started"
    /\ atexit_hooks' = atexit_hooks + 1
    /\ endpoint' = Some(<<"127.0.0.1", forwarder.local_port>>)
    /\ log' = Append(log, "SSH tunnel ready, local port: " \o str(forwarder.local_port))
    /\ hist' = [hist EXCEPT !.returned = TRUE]
    /\ pc' = "build"
    /\ UNCHANGED <<args, ssh_tunnel, dsn_alias, cfgfile, environ, sshlib, config, parsed,
                   manager, forwarder, final_args, child, exit_code, call>>

\* find_pg_dumpall() and the choice of final_args; not yet inside the try block
BuildArgs ==
    /\ pc = "build"
    /\ final_args' = choose_final_args(args, parsed, Val(endpoint)[1], Val(endpoint)[2])
    /\ pc' = "spawn"
    /\ UNCHANGED <<args, ssh_tunnel, dsn_alias, cfgfile, environ, sshlib, config, parsed,
                   manager, forwarder, atexit_hooks, endpoint, child, exit_code, log, hist, call>>

\* the child started without being waited for: the finally block follows at once
Spawn_nowait ==
    /\ pc = "spawn"
    /\ child' = [ state |-> "running", args |-> final_args, returncode |-> None ]
    /\ hist' = [hist EXCEPT !.spawns = @ + 1, !.cause = "returned"]
    /\ exit_code' = Some(0)
    /\ pc' = "finally"
    /\ UNCHANGED <<args, ssh_tunnel, dsn_alias, cfgfile, environ, sshlib, config, parsed,
                   manager, forwarder, atexit_hooks, endpoint, final_args, log, call>>

\* try: subprocess.run(cmd) starts the child, or raises FileNotFoundError
Spawn ==
    /\ pc = "spawn"
    /\ \E found \in BOOLEAN :
        IF found
        THEN /\ child' = [ state |-> "running", args |-> final_args, returncode |-> None ]
             /\ hist' = [hist EXCEPT !.spawns = @ + 1]
             /\ pc' = "wait"
             /\ UNCHANGED <<exit_code, log>>
        ELSE /\ log' = Append(log, "Error: pg_dumpall not found")
             /\ exit_code' = Some(ExitNotFound)
             /\ hist' = [hist EXCEPT !.cause = "not_found"]
             /\ pc' = "finally"
             /\ UNCHANGED child
    /\ UNCHANGED <<args, ssh_tunnel, dsn_alias, cfgfile, environ, sshlib, config, parsed,
                   manager, forwarder, atexit_hooks, endpoint, final_args, call>>

\* the child exits; sys.exit(result.returncode)
ChildExit ==
    /\ pc = "wait"
    /\ \E rc \in RetCodes :
        /\ child' = [child EXCEPT !.state = "exited", !.returncode = Some(rc)]
        /\ exit_code' = Some(exit_status(rc))
    /\ hist' = [hist EXCEPT !.cause = "returned"]
    /\ pc' = "finally"
    /\ UNCHANGED <<args, ssh_tunnel, dsn_alias, cfgfile, environ, sshlib, config, parsed,
                   manager, forwarder, atexit_hooks, endpoint, final_args, log, call>>

\* finally: tunnel_manager.stop_tunnel(); the pending SystemExit then leaves cli()
Finally ==
    /\ pc = "finally"
    /\ LET r == stop_tunnel(manager, forwarder)
       IN  /\ manager' = r.manager
           /\ forwarder' = r.forwarder
           /\ log' = log \o r.log
    /\ hist' = [hist EXCEPT !.cli_stops = @ + 1]
    /\ pc' = "exiting"
    /\ UNCHANGED <<args, ssh_tunnel, dsn_alias, cfgfile, environ, sshlib, config, parsed,
                   atexit_hooks, endpoint, final_args, child, exit_code, call>>

\* the positions of cli() at which a KeyboardInterrupt is not inside the try block
OutsideTry == { "cli", "parse", "manager", "start_tunnel", "starting", "started", "build", "finally" }

\* the user presses Ctrl-C.  Inside the try block (before or while the child
\* runs) `except KeyboardInterrupt` turns it into sys.exit(130) and the finally
\* block follows; subprocess.run kills the child before re-raising.  Anywhere
\* else the exception leaves cli().
Interrupt ==
    /\ pc \in OutsideTry \cup { "spawn", "wait" }
    /\ IF pc \in OutsideTry
       THEN /\ exit_code' = Some(ExitAbort)
            /\ pc' = "exiting"
            /\ UNCHANGED child
       ELSE /\ exit_code' = Some(ExitInterrupt)
            /\ pc' = "finally"
            /\ child' = IF child.state = "running"
                        THEN [child EXCEPT !.state = "killed"] ELSE child
    /\ hist' = [hist EXCEPT !.interrupted = Some(pc), !.cause = "interrupt"]
    /\ UNCHANGED <<args, ssh_tunnel, dsn_alias, cfgfile, environ, sshlib, config, parsed,
                   manager, forwarder, atexit_hooks, endpoint, final_args, log, call>>

\* interpreter shutdown: every registered atexit hook runs stop_tunnel
AtExit ==
    /\ pc = "exiting"
    /\ LET r == IF atexit_hooks > 0 THEN stop_tunnel(manager, forwarder)
                ELSE [ manager |-> manager, forwarder |-> forwarder, log |-> <<>> ]
       IN  /\ manager' = r.manager
           /\ forwarder' = r.forwarder
           /\ log' = log \o r.log
    /\ hist' = [hist EXCEPT !.hook_stops = @ + atexit_hooks]
    /\ pc' = "terminated"
    /\ UNCHANGED <<args, ssh_tunnel, dsn_alias, cfgfile, environ, sshlib, config, parsed,
                   atexit_hooks, endpoint, final_args, child, exit_code, call>>

Next ==
    \/ LoadConfig
    \/ ParseArgs
    \/ MakeManager
    \/ StartTunnelResolve
    \/ ForwarderStart
    \/ StartTunnelReturn
    \/ BuildArgs
    \/ Spawn
    \/ ChildExit
    \/ Finally
    \/ Interrupt
    \/ AtExit

Spec == Init /\ [][Next]_vars

(***************************************************************************)
(* Properties of the tunnel lifecycle, checked under Spec                   *)
(***************************************************************************)

\* C1: once start_tunnel has returned a local tunnel endpoint, the forwarder is
\* not active when the process has terminated, however the invocation ended
\* (child returned any code, executable missing, Ctrl-C at any later point).
C1_ForwarderReleasedAtExit ==
    (pc = "terminated" /\ hist.returned) => (~forwarder.is_active /\ forwarder.stop_calls = 1)

\* C1 witness: Ctrl-C between start_tunnel's return and the try block; the
\* forwarder was stopped by the exit hook alone.
C1_Witness ==
    /\ pc = "terminated"
    /\ hist.returned
    /\ hist.interrupted = Some("build")
    /\ hist.cli_stops = 0
    /\ hist.hook_stops = 1
    /\ ~forwarder.is_active

\* C2 (as claimed): on every exit path that follows a successful start_tunnel,
\* cli itself has called stop_tunnel by the time the process terminates.
C2_CliStopsOnEveryPath ==
    (pc = "terminated" /\ hist.returned) => hist.cli_stops >= 1

StopTunnelCalled ==
    hist'.cli_stops + hist'.hook_stops > hist.cli_stops + hist.hook_stops

\* C3: a stop_tunnel call made while no tunnel is tracked or the forwarder is
\* not active changes nothing; made while the tunnel is active it stops the
\* forwarder and clears the tracked tunnel; so the forwarder's stop() never runs
\* twice, and after a successful start it has run exactly once at termination,
\* whatever the number of stop_tunnel calls (finally block plus exit hook).
C3_StopTunnelIdempotent ==
    [][ /\ StopTunnelCalled =>
              IF manager.tunnel /\ forwarder.is_active
              THEN /\ forwarder'.stop_calls = forwarder.stop_calls + 1
                   /\ ~forwarder'.is_active
                   /\ ~manager'.tunnel
              ELSE forwarder' = forwarder /\ manager' = manager
        /\ forwarder'.stop_calls <= 1
        /\ (pc' = "terminated" /\ hist'.returned) => forwarder'.stop_calls = 1 ]_vars

\* C3 witness: two stop_tunnel calls after one successful start (finally block,
\* then exit hook), one forwarder stop.
C3_Witness ==
    /\ pc = "terminated"
    /\ hist.returned
    /\ hist.cli_stops = 1
    /\ hist.hook_stops = 1
    /\ forwarder.stop_calls = 1

\* C4: the exit code is the child's return code when the child returned, 1 when
\* the executable was not found, 130 when Ctrl-C hit the try block (the wrapped
\* command); in the last two cases cli has called stop_tunnel before exiting.
C4_ExitCodes ==
    pc = "terminated" =>
        /\ hist.cause = "returned" => exit_code = child.returncode
        /\ hist.cause = "not_found" => (exit_code = Some(1) /\ hist.cli_stops = 1)
        /\ (hist.cause = "interrupt" /\ hist.interrupted \in {Some("spawn"), Some("wait")}) =>
               (exit_code = Some(130) /\ hist.cli_stops = 1 /\ ~forwarder.is_active)

\* C4 witness: a non-zero return code passed through with a tunnel in use.
C4_Witness ==
    /\ pc = "terminated"
    /\ hist.cause = "returned"
    /\ hist.returned
    /\ child.returncode = Some(42)
    /\ exit_code = Some(42)

SetupFailed == hist.cause \in {"no_sshtunnel", "tunnel_failed"}

\* C5: when a tunnel URL is resolved and the sshtunnel package is missing, or
\* start() raises, or the forwarder is not active after start(): the exit code
\* is 1, start() was attempted at most once and no child was ever spawned.
C5_SetupFailureIsFatal ==
    /\ forwarder.start_calls <= 1
    /\ (forwarder.start_calls = 1 /\ ~forwarder.is_active /\ forwarder.stop_calls = 0)
           => hist.cause = "tunnel_failed"
    /\ (pc \notin {"cli", "parse", "manager", "start_tunnel"} /\ ~sshlib
            /\ hist.cause # "parse_error" /\ IsNone(endpoint) /\ IsNone(hist.interrupted))
           => hist.cause = "no_sshtunnel"
    /\ SetupFailed =>
           /\ exit_code = Some(1)
           /\ pc \in {"exiting", "terminated"}
           /\ hist.spawns = 0
           /\ child.state = "none"
           /\ ~forwarder.is_active

\* C5 witness: start() was called once, the forwarder is not active, the
\* process has terminated without a child.
C5_Witness ==
    /\ pc = "terminated"
    /\ hist.cause = "tunnel_failed"
    /\ forwarder.start_calls = 1
    /\ exit_code = Some(1)

NoOverrideNoRule ==
    /\ ~Truthy(ssh_tunnel)
    /\ \A i \in 1..Len(manager.dsn_ssh_tunnel_config) :
           IsNone(dsn_alias) \/ ~RegexMatch(manager.dsn_ssh_tunnel_config[i][1], Val(dsn_alias))
    /\ \A i \in 1..Len(manager.ssh_tunnel_config) :
           ~RegexMatch(manager.ssh_tunnel_config[i][1], parsed.host)

\* C6: with no explicit override and no rule fully matching, start_tunnel
\* returns (host, port) as parsed, no forwarder is created, manager.tunnel stays
\* None, and the child is given exactly the original tokens.
C6_NoTunnelLeavesTokens ==
    (~IsNone(endpoint) /\ NoOverrideNoRule) =>
        /\ endpoint = Some(<<parsed.host, parsed.port>>)
        /\ ~forwarder.created
        /\ ~manager.tunnel
        /\ pc \in {"spawn", "wait"} => final_args = args
        /\ child.state # "none" => child.args = args

\* C6 witness: ["-h", "db1"] with no rule configured: the child ran with the
\* same two tokens.
C6_Witness ==
    /\ pc = "terminated"
    /\ NoOverrideNoRule
    /\ args = <<"-h", "db1">>
    /\ child.state = "exited"
    /\ child.args = <<"-h", "db1">>

\* C7 (as claimed): no record emitted by find_tunnel_url or start_tunnel holds
\* the password of the tunnel URL in plaintext.
C7_NoPlaintextPassword ==
    \A i \in 1..Len(log) : ~contains(log[i], Password)

(***************************************************************************)
(* Tunnel resolution on its own: a manager is built, directly or from a     *)
(* config, and find_tunnel_url is called on it.                             *)
(***************************************************************************)
MaxRules == 2

ResolvePatterns == { "prod", "prod-.*", ".*" }

Candidates == { None, Some(""), Some("prod"), Some("xprodx"), Some("prod-1"), Some("allow_agent") }

ResolveOverrides == { None, Some(""), Some("ssh://ops@bastion") }

\* the allow_agent setting of the [ssh tunnels] section, when present
AgentSettings == { None, Some("False"), Some("True") }

\* key lists of a dict: no key twice
KeyLists == { ks \in SeqsUpTo(ResolvePatterns, MaxRules) :
                \A i \in 1..Len(ks) : \A j \in 1..Len(ks) : i # j => ks[i] # ks[j] }

\* the dict with these keys; the k-th rule's URL names its section and position
RuleDict(ks, user) == [ k \in 1..Len(ks) |-> <<ks[k], user \o str(k) \o "@gw" \o str(k)>> ]

IdleCli ==
    /\ pc = "idle"
    /\ args = <<>>
    /\ ssh_tunnel = None
    /\ dsn_alias = None
    /\ cfgfile = None
    /\ environ = [PGHOST |-> None, PGPORT |-> None]
    /\ sshlib = TRUE
    /\ config = EmptyConfig
    /\ parsed = NoParse
    /\ forwarder = NoForwarder
    /\ atexit_hooks = 0
    /\ endpoint = None
    /\ final_args = <<>>
    /\ child = NoChild
    /\ exit_code = None
    /\ log = <<>>
    /\ hist = NoHist

InitResolve ==
    /\ IdleCli
    /\ manager = NoManager
    /\ \E url \in ResolveOverrides : \E hk \in KeyLists : \E dk \in KeyLists :
       \E agent \in AgentSettings : \E host \in Candidates : \E alias \in Candidates :
          call = [ op |-> "find_tunnel_url", stage |-> "input", url |-> url,
                   host_rules |-> RuleDict(hk, "host"), dsn_rules |-> RuleDict(dk, "dsn"),
                   agent |-> agent, host |-> host, alias |-> alias, out |-> None ]

\* SSHTunnelManager(ssh_tunnel_url=..., ssh_tunnel_config=..., dsn_ssh_tunnel_config=...)
ResolveConstruct ==
    /\ call.op = "find_tunnel_url" /\ call.stage = "input"
    /\ IsNone(call.agent)
    /\ manager' = SSHTunnelManager(call.url, Some(call.host_rules), Some(call.dsn_rules), TRUE)
    /\ call' = [call EXCEPT !.stage = "ready"]
    /\ UNCHANGED <<pc, args, ssh_tunnel, dsn_alias, cfgfile, environ, sshlib, config, parsed,
                   forwarder, atexit_hooks, endpoint, final_args, child, exit_code, log, hist>>

\* get_tunnel_manager_from_config(config, ssh_tunnel_url=...), the [ssh tunnels]
\* section holding the host rules and, when set, the allow_agent setting
ResolveFromConfig ==
    /\ call.op = "find_tunnel_url" /\ call.stage = "input"
    /\ LET section == call.host_rules \o
                      (IF IsNone(call.agent) THEN <<>> ELSE << <<"allow_agent", Val(call.agent)>> >>)
       IN  manager' = get_tunnel_manager_from_config(
                          Config(Some(section), Some(call.dsn_rules)), call.url)
    /\ call' = [call EXCEPT !.stage = "ready"]
    /\ UNCHANGED <<pc, args, ssh_tunnel, dsn_alias, cfgfile, environ, sshlib, config, parsed,
                   forwarder, atexit_hooks, endpoint, final_args, child, exit_code, log, hist>>

\* manager.find_tunnel_url(host=..., dsn_alias=...)
ResolveFind ==
    /\ call.op = "find_tunnel_url" /\ call.stage = "ready"
    /\ LET r == find_tunnel_url(manager, call.host, call.alias)
       IN  /\ call' = [call EXCEPT !.stage = "done", !.out = Some(r.url)]
           /\ log' = log \o r.log
    /\ UNCHANGED <<pc, args, ssh_tunnel, dsn_alias, cfgfile, environ, sshlib, config, parsed,
                   manager, forwarder, atexit_hooks, endpoint, final_args, child, exit_code, hist>>

NextResolve ==
    \/ ResolveConstruct
    \/ ResolveFromConfig
    \/ ResolveFind

SpecResolve == InitResolve /\ [][NextResolve]_vars

Resolved == call.op = "find_tunnel_url" /\ call.stage = "done"

\* the rule lists in declaration order, as (pattern, URL) pairs
AliasRules == manager.dsn_ssh_tunnel_config
HostRules == manager.ssh_tunnel_config

Matching(rules, s) == { i \in 1..Len(rules) : RegexMatch(rules[i][1], s) }

\* the URL of the first rule, in declaration order, matching all of s
FirstFullMatch(rules, s) ==
    IF Matching(rules, s) = {} THEN None
    ELSE LET i == CHOOSE k \in Matching(rules, s) : \A j \in Matching(rules, s) : k <= j
         IN  Some(rules[i][2])

\* C8: an explicit override URL is returned whatever the rules are; without
\* one, when an alias is supplied and some alias rule fully matches it, the URL
\* returned is that of an alias rule matching the alias, also when a host rule
\* matches the host.
C8_ResolutionPrecedence ==
    Resolved =>
        /\ Truthy(call.url) => Val(call.out) = call.url
        /\ (~Truthy(call.url) /\ Truthy(call.alias) /\ Matching(AliasRules, Val(call.alias)) # {}) =>
               \E i \in Matching(AliasRules, Val(call.alias)) : Val(call.out) = Some(AliasRules[i][2])

\* C8 witness: no override, an alias rule matches the alias and a host rule
\* matches the host; the alias rule's URL is returned.
C8_Witness ==
    /\ Resolved
    /\ ~Truthy(call.url)
    /\ call.alias = Some("prod-1")
    /\ call.host = Some("prod")
    /\ Matching(AliasRules, "prod-1") # {}
    /\ Matching(HostRules, "prod") # {}
    /\ Val(call.out) = Some(AliasRules[1][2])

\* C9 (as claimed): in each rule list the rule selected for a candidate string
\* is the first whose pattern matches the whole string, and none when no
\* pattern does -- for every candidate string, the empty one included.
C9_FirstFullMatchAnyCandidate ==
    (Resolved /\ ~Truthy(call.url)) =>
        LET a == IF IsNone(call.alias) THEN None ELSE FirstFullMatch(AliasRules, Val(call.alias))
            h == IF IsNone(call.host) THEN None ELSE FirstFullMatch(HostRules, Val(call.host))
        IN  Val(call.out) = IF ~IsNone(a) THEN a ELSE h

\* C9 (amended): the same for every non-empty candidate string; an empty alias
\* or host is treated like an absent one and is matched against no rule.
C9_FirstFullMatchWins ==
    (Resolved /\ ~Truthy(call.url)) =>
        LET a == IF ~Truthy(call.alias) THEN None ELSE FirstFullMatch(AliasRules, Val(call.alias))
            h == IF ~Truthy(call.host) THEN None ELSE FirstFullMatch(HostRules, Val(call.host))
        IN  Val(call.out) = IF ~IsNone(a) THEN a ELSE h

\* C9 witness: two host rules both match the whole host; the one declared
\* first is selected.
C9_Witness ==
    /\ Resolved
    /\ ~Truthy(call.url)
    /\ IsNone(call.alias)
    /\ call.host = Some("prod-1")
    /\ Len(HostRules) = 2
    /\ Matching(HostRules, "prod-1") = {1, 2}
    /\ Val(call.out) = Some(HostRules[1][2])

\* the (host-pattern, tunnel-url) pairs configured in the [ssh tunnels] section
ConfiguredHostRules == call.host_rules

\* C27: only the configured (host-pattern, tunnel-url) pairs act as host
\* rules.  Without an override, when no alias rule matches the alias and no
\* configured host pattern fully matches the host, the result is no tunnel,
\* and the value of the allow_agent setting is never returned as a tunnel URL.
C27_AgentSettingIsNoRule ==
    (Resolved /\ ~Truthy(call.url)) =>
        /\ ( /\ ~Truthy(call.alias) \/ Matching(AliasRules, Val(call.alias)) = {}
             /\ ~Truthy(call.host) \/ Matching(ConfiguredHostRules, Val(call.host)) = {} )
              => IsNone(Val(call.out))
        /\ ~IsNone(call.agent) => Val(call.out) # call.agent

\* C28 (as claimed): an alias is supplied, no alias rule fully matches it and
\* there is no override; the result is the first host rule that fully matches
\* the host, and no tunnel only if no host rule matches -- for every host
\* string, the empty one included.
C28_FallThroughAnyHost ==
    ( /\ Resolved
      /\ ~Truthy(call.url)
      /\ Truthy(call.alias)
      /\ Matching(AliasRules, Val(call.alias)) = {}
      /\ ~IsNone(call.host) )
        => Val(call.out) = FirstFullMatch(HostRules, Val(call.host))

\* C28 (amended): the same for every non-empty host; with an empty host the
\* host rules are not consulted and the result is no tunnel.
C28_FallThroughToHostRules ==
    ( /\ Resolved
      /\ ~Truthy(call.url)
      /\ Truthy(call.alias)
      /\ Matching(AliasRules, Val(call.alias)) = {} )
        => Val(call.out) = IF Truthy(call.host) THEN FirstFullMatch(HostRules, Val(call.host))
                           ELSE None

\* C28 witness: alias rules exist but none matches the alias; two host rules
\* match the host and the first one is returned.
C28_Witness ==
    /\ Resolved
    /\ ~Truthy(call.url)
    /\ call.alias = Some("xprodx")
    /\ Len(AliasRules) > 0
    /\ Matching(AliasRules, "xprodx") = {}
    /\ call.host = Some("prod-1")
    /\ Matching(HostRules, "prod-1") = {1, 2}
    /\ Val(call.out) = Some(HostRules[1][2])

(***************************************************************************)
(* The parser on its own: parse_connection_args applied to token sequences  *)
(***************************************************************************)
MaxParseArgs == 3

ParseTokens ==
    { "-h", "--host", "--host=a", "-p", "--port=5", "-d", "--dbname",
      "--dbname=host=b port=6", "host=c\tport=7", "port=8 dbname=m",
      "pg://u@h/db?host=z", "a", "5", "-5", "x" }

ParseEnvs ==
    { [PGHOST |-> None, PGPORT |-> None],
      [PGHOST |-> Some("envh"), PGPORT |-> Some("6000")],
      [PGHOST |-> None, PGPORT |-> Some("bad")] }

InitParse ==
    /\ IdleCli
    /\ manager = NoManager
    /\ \E a \in SeqsUpTo(ParseTokens, MaxParseArgs) : \E env \in ParseEnvs :
          call = [ op |-> "parse_connection_args", stage |-> "input",
                   args |-> a, env |-> env, out |-> None,
                   tunnel |-> None, built |-> None, reparsed |-> None ]

\* host, port, remaining_args, has_host, has_port = parse_connection_args(args)
ParseCall ==
    /\ call.op = "parse_connection_args" /\ call.stage = "input"
    /\ call' = [call EXCEPT !.stage = "parsed",
                            !.out = Some(parse_connection_args(call.args, call.env))]
    /\ UNCHANGED cliVars

\* the replacement endpoints tried on a parsed target: a local bind endpoint,
\* and the endpoint that is already the effective one
Replacements(target) == { <<"127.0.0.1", 55123>>, <<target.host, target.port>> }

\* build_tunneled_args(remaining_args, tunnel_host, tunnel_port, host, port,
\* has_host, has_port) on what the parser returned
RewriteCall ==
    /\ call.op = "parse_connection_args" /\ call.stage = "parsed"
    /\ IsNone(Val(call.out).error)
    /\ \E t \in Replacements(Val(call.out)) :
          call' = [call EXCEPT !.stage = "built",
                               !.tunnel = Some(t),
                               !.built = Some(build_tunneled_args(Val(call.out).remaining_args,
                                                  t[1], t[2], Val(call.out).has_host,
                                                  Val(call.out).has_port))]
    /\ UNCHANGED cliVars

\* parse_connection_args applied to the rewritten tokens
ReparseCall ==
    /\ call.op = "parse_connection_args" /\ call.stage = "built"
    /\ call' = [call EXCEPT !.stage = "reparsed",
                            !.reparsed = Some(parse_connection_args(Val(call.built), call.env))]
    /\ UNCHANGED cliVars

NextParse ==
    \/ ParseCall
    \/ RewriteCall
    \/ ReparseCall

SpecParse == InitParse /\ [][NextParse]_vars

\* parse_connection_args was called and returned (int() did not raise)
ParseReturned ==
    /\ call.op = "parse_connection_args"
    /\ call.stage # "input"
    /\ IsNone(Val(call.out).error)

FlagsWithValue == { "-h", "--host", "-p", "--port", "-d", "--dbname" }

RECURSIVE HostFields(_)
\* the values of the host= fields of a connection string, in order
HostFields(parts) ==
    IF Len(parts) = 0 THEN <<>>
    ELSE (IF startswith(parts[1], "host=") THEN <<after_first(parts[1], "=")>> ELSE <<>>)
         \o HostFields(Tail(parts))

RECURSIVE HostOccurrences(_, _)
\* the host values given by the tokens from index i on, left to right: the value
\* after a host flag, the value joined to --host=, and the host= fields of the
\* value of a dbname flag (either spelling).  A flag that is followed by a token
\* takes that token as its value.
HostOccurrences(a, i) ==
    IF i > Len(a) THEN <<>>
    ELSE IF a[i] \in FlagsWithValue /\ i < Len(a)
         THEN (IF a[i] \in {"-h", "--host"} THEN <<a[i + 1]>>
               ELSE IF a[i] \in {"-d", "--dbname"} THEN HostFields(split(a[i + 1]))
               ELSE <<>>)
              \o HostOccurrences(a, i + 2)
    ELSE (IF startswith(a[i], "--host=") THEN <<after_first(a[i], "=")>>
          ELSE IF startswith(a[i], "--dbname=") THEN HostFields(split(after_first(a[i], "=")))
          ELSE <<>>)
         \o HostOccurrences(a, i + 1)

\* C10: when parse_connection_args returns, the host is the value of the last
\* host occurrence in the tokens (host flag in either spelling, or host= field
\* of a dbname connection string), has_host tells whether there is one, and with
\* none the host is PGHOST or "localhost".
C10_LastHostWins ==
    ParseReturned =>
        LET occ == HostOccurrences(call.args, 1)
            out == Val(call.out)
        IN  /\ out.has_host = (Len(occ) > 0)
            /\ out.host = IF Len(occ) > 0 THEN occ[Len(occ)] ELSE env_host(call.env)

\* C10 witness: a --host= flag followed by a connection string with a host=
\* field: two occurrences, the later one is the host.
C10_Witness ==
    /\ ParseReturned
    /\ call.args = <<"--host=a", "-d", "host=c\tport=7">>
    /\ HostOccurrences(call.args, 1) = <<"a", "c">>
    /\ Val(call.out).host = "c"
    /\ Val(call.out).has_host

RECURSIVE PortFields(_)
\* the texts of the port= fields of a connection string, in order
PortFields(parts) ==
    IF Len(parts) = 0 THEN <<>>
    ELSE (IF startswith(parts[1], "port=") THEN <<after_first(parts[1], "=")>> ELSE <<>>)
         \o PortFields(Tail(parts))

RECURSIVE PortOccurrences(_, _)
\* the port texts given by the tokens from index i on, left to right: the value
\* after a port flag, the value joined to --port=, and the port= fields of the
\* value of a dbname flag (either spelling), whatever else that value holds
PortOccurrences(a, i) ==
    IF i > Len(a) THEN <<>>
    ELSE IF a[i] \in FlagsWithValue /\ i < Len(a)
         THEN (IF a[i] \in {"-p", "--port"} THEN <<a[i + 1]>>
               ELSE IF a[i] \in {"-d", "--dbname"} THEN PortFields(split(a[i + 1]))
               ELSE <<>>)
              \o PortOccurrences(a, i + 2)
    ELSE (IF startswith(a[i], "--port=") THEN <<after_first(a[i], "=")>>
          ELSE IF startswith(a[i], "--dbname=") THEN PortFields(split(after_first(a[i], "=")))
          ELSE <<>>)
         \o PortOccurrences(a, i + 1)

\* C11 (as claimed): when parse_connection_args returns, the port is the value
\* of the last port occurrence in the tokens, a port= field of any dbname
\* connection string counting like a port flag also when the string has no
\* host= field; has_port tells whether there is an occurrence, and with none
\* the port is PGPORT or 5432.
C11_LastPortWins ==
    ParseReturned =>
        LET occ == PortOccurrences(call.args, 1)
            out == Val(call.out)
        IN  /\ out.has_port = (Len(occ) > 0)
            /\ IF Len(occ) > 0 THEN int(occ[Len(occ)]) = Some(out.port)
               ELSE env_port(call.env) = Some(out.port)

\* C12: when parse_connection_args returns, remaining_args is the input, token
\* for token and in the same order, also when the input ends in a host, port or
\* dbname flag that has no value.
C12_ParseNonDestructive ==
    ParseReturned => Val(call.out).remaining_args = call.args

\* C12 witness: host, port and dbname tokens between plain ones, the last token
\* a port flag without a value.
C12_Witness ==
    /\ ParseReturned
    /\ call.stage = "parsed"
    /\ call.args = <<"--host=a", "x", "-p">>
    /\ Val(call.out).remaining_args = <<"--host=a", "x", "-p">>
    /\ Val(call.out).has_host
    /\ ~Val(call.out).has_port

\* a port text that is a non-negative integer
ValidPortText(t) == ~IsNone(int(t)) /\ Val(int(t)) >= 0

\* C13 (as claimed): parse_connection_args fails whenever some port occurrence
\* (flag value in either spelling, or port= field of a connection string) is
\* not a non-negative integer, and a port it returns is never negative.
C13_BadPortRejected ==
    (call.op = "parse_connection_args" /\ call.stage # "input") =>
        LET occ == PortOccurrences(call.args, 1)
            out == Val(call.out)
        IN  /\ (\E k \in 1..Len(occ) : ~ValidPortText(occ[k])) => ~IsNone(out.error)
            /\ IsNone(out.error) => out.port >= 0

(***************************************************************************)
(* The rewriter on its own: build_tunneled_args applied to token sequences, *)
(* a replacement endpoint and the two flags                                 *)
(***************************************************************************)
MaxRewriteArgs == 3

RewriteTokens ==
    { "-h", "--host", "--host=a", "-p", "--port", "--port=5", "-d", "--dbname",
      "--dbname=host=b  port=6 k=v", "--dbname=m", "host=c\tport=7 k=v",
      "port=8 dbname=m", "m", "-g" }

RewriteEndpoints == { <<"127.0.0.1", 55123>>, <<"t", 9>> }

InitRewrite ==
    /\ IdleCli
    /\ manager = NoManager
    /\ \E a \in SeqsUpTo(RewriteTokens, MaxRewriteArgs) : \E t \in RewriteEndpoints :
       \E hh \in BOOLEAN : \E hp \in BOOLEAN :
          call = [ op |-> "build_tunneled_args", stage |-> "input", args |-> a,
                   tunnel_host |-> t[1], tunnel_port |-> t[2],
                   has_host |-> hh, has_port |-> hp, out |-> None ]

\* new_args = build_tunneled_args(original_args, tunnel_host, tunnel_port, host,
\* port, has_host, has_port)
RewriteDirect ==
    /\ call.op = "build_tunneled_args" /\ call.stage = "input"
    /\ call' = [call EXCEPT !.stage = "built",
                            !.out = Some(build_tunneled_args(call.args, call.tunnel_host,
                                             call.tunnel_port, call.has_host, call.has_port))]
    /\ UNCHANGED cliVars

NextRewrite ==
    \/ RewriteDirect

SpecRewrite == InitRewrite /\ [][NextRewrite]_vars

Rewritten == call.op = "build_tunneled_args" /\ call.stage = "built"

RECURSIVE Roles(_, _)
\* what each token from index i on is, reading left to right: a flag that is
\* followed by a token takes that token as its value
Roles(a, i) ==
    IF i > Len(a) THEN <<>>
    ELSE IF a[i] \in FlagsWithValue /\ i < Len(a)
         THEN (IF a[i] \in {"-h", "--host"} THEN <<"hostflag", "hostval">>
               ELSE IF a[i] \in {"-p", "--port"} THEN <<"portflag", "portval">>
               ELSE <<"dbflag", "dbval">>)
              \o Roles(a, i + 2)
    ELSE (IF a[i] \in {"-h", "--host"} THEN <<"hostflag">>
          ELSE IF a[i] \in {"-p", "--port"} THEN <<"portflag">>
          ELSE IF a[i] \in {"-d", "--dbname"} THEN <<"dbflag">>
          ELSE IF startswith(a[i], "--host=") THEN <<"hostjoined">>
          ELSE IF startswith(a[i], "--port=") THEN <<"portjoined">>
          ELSE IF startswith(a[i], "--dbname=") THEN <<"dbjoined">>
          ELSE <<"plain">>)
         \o Roles(a, i + 1)

AllEqual(seq, v) == \A k \in 1..Len(seq) : seq[k] = v

\* C16 (as claimed): in the output of build_tunneled_args every host flag value
\* and every host= field of a dbname connection string is the replacement host,
\* and every port flag value and every port= field of a dbname connection
\* string is the replacement port, also in a string that has no host= field.
C16_EveryOccurrenceRewritten ==
    Rewritten =>
        /\ AllEqual(HostOccurrences(Val(call.out), 1), call.tunnel_host)
        /\ AllEqual(PortOccurrences(Val(call.out), 1), str(call.tunnel_port))

RECURSIVE ws_runs(_, _, _)
\* the maximal runs of whitespace of s, in order
ws_runs(s, i, cur) ==
    IF i > Len(s)
    THEN IF cur = "" THEN <<>> ELSE <<cur>>
    ELSE IF IsSpace(SubSeq(s, i, i))
         THEN ws_runs(s, i + 1, cur \o SubSeq(s, i, i))
         ELSE (IF cur = "" THEN <<>> ELSE <<cur>>) \o ws_runs(s, i + 1, "")

Separators(s) == ws_runs(s, 1, "")

\* the connection string v has a host= or a port= field
HasField(v) ==
    \E k \in 1..Len(split(v)) : startswith(split(v)[k], "host=") \/ startswith(split(v)[k], "port=")

\* w is v with at most the values of its host= and port= fields changed
FrameKept(v, w) ==
    /\ Len(split(w)) = Len(split(v))
    /\ \A k \in 1..Len(split(v)) :
          IF startswith(split(v)[k], "host=") THEN startswith(split(w)[k], "host=")
          ELSE IF startswith(split(v)[k], "port=") THEN startswith(split(w)[k], "port=")
          ELSE split(w)[k] = split(v)[k]
    /\ Separators(w) = Separators(v)

\* C17 (as claimed): a dbname value with a host= or port= field comes out of
\* build_tunneled_args with the same fields in the same order, every field
\* other than host= and port= unchanged, and the same separators between the
\* fields as in the input.
C17_ConnectionStringFrame ==
    Rewritten =>
        \A i \in 1..Len(call.args) :
            /\ (Roles(call.args, 1)[i] = "dbval" /\ HasField(call.args[i]))
                   => FrameKept(call.args[i], Val(call.out)[i])
            /\ (Roles(call.args, 1)[i] = "dbjoined" /\ HasField(after_first(call.args[i], "=")))
                   => /\ startswith(Val(call.out)[i], "--dbname=")
                      /\ FrameKept(after_first(call.args[i], "="),
                                   after_first(Val(call.out)[i], "="))

\* the number of tokens the walk over the input produces: one per input token,
\* and one more when the input ends in a host or port flag without a value
BodyLen(a) ==
    Len(a) + (IF Len(a) > 0 /\ Roles(a, 1)[Len(a)] \in {"hostflag", "portflag"} THEN 1 ELSE 0)

\* the pairs added after the walk
AppendedPairs(hh, hp, H, P) ==
    (IF hh THEN <<>> ELSE <<"-h", H>>) \o (IF hp THEN <<>> ELSE <<"-p", str(P)>>)

\* the token at index i is neither a host flag, a port flag, the value of one
\* of them, nor a dbname value that has a host= or port= field
PassThrough(a, i) ==
    \/ Roles(a, 1)[i] \in {"plain", "dbflag"}
    \/ Roles(a, 1)[i] = "dbval" /\ ~HasField(a[i])
    \/ Roles(a, 1)[i] = "dbjoined" /\ ~HasField(after_first(a[i], "="))

\* C18 (as claimed): every such token, a dbname flag in either spelling and a
\* dbname value without host=/port= field included, is in the output unchanged
\* at its original index; what follows the tokens derived from the input is
\* only the appended pairs, so the output is never shorter than the input.
C18_OtherTokensUnchanged ==
    Rewritten =>
        LET a == call.args
            o == Val(call.out)
        IN  /\ Len(o) >= Len(a)
            /\ \A i \in 1..Len(a) : PassThrough(a, i) => o[i] = a[i]
            /\ SubSeq(o, BodyLen(a) + 1, Len(o))
                   = AppendedPairs(call.has_host, call.has_port, call.tunnel_host, call.tunnel_port)

(***************************************************************************)
(* Parser and rewriter together, checked under SpecParse                    *)
(***************************************************************************)
\* the parser returned and build_tunneled_args was applied to what it returned
ParseRewritten == call.op = "parse_connection_args" /\ call.stage \in {"built", "reparsed"}

HostPortRoles == { "hostflag", "hostval", "portflag", "portval", "hostjoined", "portjoined" }

\* no host flag, no port flag (either spelling, with or without a value) and no
\* dbname value with a host= or port= field among the tokens
HostPortAbsent(a) ==
    LET r == Roles(a, 1)
    IN  \A i \in 1..Len(a) :
            /\ r[i] \notin HostPortRoles
            /\ r[i] = "dbval" => ~HasField(a[i])
            /\ r[i] = "dbjoined" => ~HasField(after_first(a[i], "="))

\* C19: with has_host and has_port as the parser returned them, the output of
\* build_tunneled_args is the tokens of the walk followed by a host pair exactly
\* when has_host is false and then a port pair exactly when has_port is false;
\* when the input has no host and no port at all, the walk gives as many tokens
\* as the input, none of them a host or port flag, and exactly one host pair and
\* one port pair follow; the empty input gives ["-h", host, "-p", port].
C19_MissingPairsAppended ==
    ParseRewritten =>
        LET a == call.args
            t == Val(call.out)
            o == Val(call.built)
            H == Val(call.tunnel)[1]
            P == Val(call.tunnel)[2]
            body == SubSeq(o, 1, Len(a))
            n == BodyLen(a)
        IN  /\ Len(o) = n + Len(AppendedPairs(t.has_host, t.has_port, H, P))
            /\ SubSeq(o, n + 1, Len(o)) = AppendedPairs(t.has_host, t.has_port, H, P)
            /\ HostPortAbsent(a) =>
                   /\ o = body \o <<"-h", H, "-p", str(P)>>
                   /\ LET r == Roles(body, 1)
                      IN  \A i \in 1..Len(body) : r[i] \notin HostPortRoles
            /\ a = <<>> => o = <<"-h", H, "-p", str(P)>>

\* C19 witness: a host is given, a port is not: only the port pair is appended.
C19_Witness ==
    /\ ParseRewritten
    /\ call.args = <<"x", "--host=a">>
    /\ call.tunnel = Some(<<"127.0.0.1", 55123>>)
    /\ Val(call.built) = <<"x", "--host=127.0.0.1", "-p", "55123">>

\* C20 (as claimed): parsing the output of build_tunneled_args, called with the
\* parser's pass-through tokens and flags and a replacement (H, P), gives host H
\* and port P, both explicit, for any token sequence.
C20_RoundTrip ==
    (call.op = "parse_connection_args" /\ call.stage = "reparsed") =>
        LET again == Val(call.reparsed)
        IN  /\ IsNone(again.error)
            /\ again.host = Val(call.tunnel)[1]
            /\ again.port = Val(call.tunnel)[2]
            /\ again.has_host
            /\ again.has_port

\* C29: the rewriter replaces or inserts a value exactly where the parser
\* read a host or port occurrence: the output has one token per input token
\* followed by the appended pairs only, and a host or port flag that is the
\* last token and has no value is emitted unchanged with no value added.
C29_SameClassification ==
    ParseRewritten =>
        LET a == call.args
            r == Roles(a, 1)
            t == Val(call.out)
            o == Val(call.built)
            pairs == AppendedPairs(t.has_host, t.has_port, Val(call.tunnel)[1], Val(call.tunnel)[2])
        IN  /\ Len(o) = Len(a) + Len(pairs)
            /\ SubSeq(o, Len(a) + 1, Len(o)) = pairs
            /\ (Len(a) > 0 /\ r[Len(a)] \in {"hostflag", "portflag"}) => o[Len(a)] = a[Len(a)]

(***************************************************************************)
(* Properties of cli() that rest on the parser and the rewriter, checked    *)
(* under Spec                                                               *)
(***************************************************************************)
\* some port occurrence among the tokens (port flag value in either spelling,
\* port= field of a dbname connection string) is not an integer
MalformedPort(a) ==
    \E k \in 1..Len(PortOccurrences(a, 1)) : IsNone(int(PortOccurrences(a, 1)[k]))

\* C14 (as claimed): when a port flag value or a connection-string port= field
\* among the tokens is malformed, cli ends with the parse error before
\* start_tunnel is called: it never gets past the parsing step, no forwarder is
\* created and no child is spawned.
C14_MalformedPortAborts ==
    MalformedPort(args) =>
        /\ pc \in {"cli", "parse", "exiting", "terminated"}
        /\ ~forwarder.created
        /\ child.state = "none"
        /\ hist.spawns = 0
        /\ (pc \in {"exiting", "terminated"} /\ IsNone(hist.interrupted))
               => hist.cause = "parse_error"

\* C15 (as claimed): when start_tunnel has returned a local tunnel endpoint, the
\* tokens given to the child are the rewritten tokens, and parsing them again
\* gives exactly 127.0.0.1 and the forwarder's local bind port.
C15_ChildGetsLocalEndpoint ==
    (hist.returned /\ child.state # "none") =>
        LET again == parse_connection_args(child.args, environ)
        IN  /\ child.args = build_tunneled_args(parsed.remaining_args, "127.0.0.1",
                                forwarder.local_port, parsed.has_host, parsed.has_port)
            /\ IsNone(again.error)
            /\ again.host = "127.0.0.1"
            /\ again.port = forwarder.local_port

(***************************************************************************)
(* The child process and the configuration fallback, checked under Spec     *)
(***************************************************************************)
\* cli() printed that the pg_dumpall executable does not exist
NotFound == \E i \in 1..Len(log) : log[i] = "Error: pg_dumpall not found"

\* the forwarder is live while the child runs, and is stopped only once the
\* child is gone
TunnelSpansChild ==
    /\ (child.state = "running" /\ hist.returned)
          => (forwarder.is_active /\ forwarder.start_calls = 1 /\ forwarder.stop_calls = 0)
    /\ (forwarder.stop_calls > 0 /\ hist.spawns > 0) => child.state \in {"exited", "killed"}

\* C21 as stated: the wrapped command is spawned at most once, and exactly
\* once whenever parsing and tunnel setup succeeded (start_tunnel returned an
\* endpoint); with a tunnel, the forwarder is active from before the spawn
\* until the child has terminated.
C21_SpawnedOnceWhenSetupSucceeds ==
    /\ hist.spawns <= 1
    /\ (pc = "terminated" /\ ~IsNone(endpoint)) => hist.spawns = 1
    /\ TunnelSpansChild

\* C21 (amended): the wrapped command is spawned at most once, and exactly
\* once when parsing and tunnel setup succeeded, the executable exists and no
\* KeyboardInterrupt arrived; with a tunnel, the forwarder is
\* active from before the spawn until the child has terminated, and
\* stop_tunnel never stops it while the child runs.
C21_SpawnedAtMostOnceInsideTunnel ==
    /\ hist.spawns <= 1
    /\ (pc = "terminated" /\ ~IsNone(endpoint) /\ ~NotFound /\ IsNone(hist.interrupted))
          => hist.spawns = 1
    /\ TunnelSpansChild

\* a tunnelled invocation whose child ran to its end and whose forwarder was
\* stopped afterwards
C21_Witness ==
    /\ pc = "terminated"
    /\ hist.returned
    /\ hist.spawns = 1
    /\ child.state = "exited"
    /\ forwarder.stop_calls = 1
    /\ IsNone(hist.interrupted)

\* C22: a failure to load the configuration does not abort the invocation:
\* cli goes on with a configuration that has no host rules and no alias
\* rules, so without an override URL no forwarder is ever created and the
\* child gets the original arguments, and the wrapped command is still run
\* (unless parsing fails, the executable is missing or the user interrupts).
C22_ConfigFailureDegrades ==
    IsNone(cfgfile) =>
        /\ pc # "cli" => config = EmptyConfig
        /\ hist.cause \in {"none", "parse_error", "no_sshtunnel", "bad_url", "tunnel_failed",
                            "not_found", "returned", "interrupt"}
        /\ ~Truthy(ssh_tunnel) =>
              /\ ~forwarder.created
              /\ ~hist.returned
              /\ ~IsNone(endpoint) => endpoint = Some(<<parsed.host, parsed.port>>)
              /\ hist.spawns > 0 => child.args = args
              /\ (pc = "terminated" /\ IsNone(hist.interrupted) /\ ~NotFound
                     /\ hist.cause # "parse_error") => hist.spawns = 1

\* the configuration could not be loaded, no override was given, and the
\* child ran with the original arguments
C22_Witness ==
    /\ IsNone(cfgfile)
    /\ ~Truthy(ssh_tunnel)
    /\ pc = "terminated"
    /\ child.state = "exited"
    /\ child.args = args
    /\ Len(args) > 0
    /\ \E i \in 1..Len(log) : log[i] = "Could not load pgcli config: error"

(***************************************************************************)
(* namedqueries.py: ExtendedNamedQueries                                    *)
(***************************************************************************)
\* str.endswith
endswith(s, suffix) == Len(s) >= Len(suffix) /\ SubSeq(s, Len(s) - Len(suffix) + 1, Len(s)) = suffix

\* the characters of the names used here, in code point order
CodePoints == "-./0123456789_abcdefghijklmnopqrstuvwxyz"

\* position of a character in code point order
ord(c) == CHOOSE i \in 1..Len(CodePoints) : SubSeq(CodePoints, i, i) = c

RECURSIVE str_lt(_, _)
\* s < t for Python strings: lexicographic by code point
str_lt(s, t) ==
    IF Len(t) = 0 THEN FALSE
    ELSE IF Len(s) = 0 THEN TRUE
    ELSE IF SubSeq(s, 1, 1) # SubSeq(t, 1, 1) THEN ord(SubSeq(s, 1, 1)) < ord(SubSeq(t, 1, 1))
    ELSE str_lt(SubSeq(s, 2, Len(s)), SubSeq(t, 2, Len(t)))

RECURSIVE insert_sorted(_, _)
\* x placed in the sorted sequence seq, after the elements not greater than it
insert_sorted(seq, x) ==
    IF Len(seq) = 0 THEN <<x>>
    ELSE IF str_lt(x, seq[1]) THEN <<x>> \o seq
    ELSE <<seq[1]>> \o insert_sorted(Tail(seq), x)

\* the names in the order the file system listed them
unsorted(seq) == seq

RECURSIVE sorted(_)
\* sorted(iterable of str)
sorted(seq) ==
    IF Len(seq) = 0 THEN <<>>
    ELSE insert_sorted(sorted(SubSeq(seq, 1, Len(seq) - 1)), seq[Len(seq)])

\* key in d
dict_has(d, k) == \E i \in 1..Len(d) : d[i][1] = k

\* list(d.keys())
dict_keys(d) == [ i \in 1..Len(d) |-> d[i][1] ]

\* d[k] = v: an existing key keeps its position, a new key goes last
dict_set(d, k, v) ==
    IF dict_has(d, k)
    THEN [ i \in 1..Len(d) |-> IF d[i][1] = k THEN <<k, v>> ELSE d[i] ]
    ELSE Append(d, <<k, v>>)

RECURSIVE dict_update(_, _)
\* d.update(e)
dict_update(d, e) ==
    IF Len(e) = 0 THEN d
    ELSE dict_update(dict_set(d, e[1][1], e[1][2]), Tail(e))

RECURSIVE dict_without(_, _)
\* {k: v for k, v in d.items() if k not in keys}
dict_without(d, keys) ==
    IF Len(d) = 0 THEN <<>>
    ELSE (IF d[1][1] \in keys THEN <<>> ELSE <<d[1]>>) \o dict_without(Tail(d), keys)

\* os.path.dirname
dirname(path) == SubSeq(path, 1, rfind(path, "/") - 1)

\* os.path.isabs
isabs(path) == startswith(path, "/")

\* os.path.join(a, b) for a relative b
path_join(a, b) == a \o "/" \o b

INCLUDE_DIR_NAME == "namedqueries.d"

DIRECTIVES == { "includedir" }

\* the main ConfigObj: its file name and its [named queries] section, if any
MainConfig(filename, named_queries) == [ filename |-> filename, named_queries |-> named_queries ]

\* self.config.get(self.section_name, {})
section_of(cfg) == IF IsNone(cfg.named_queries) THEN <<>> ELSE Val(cfg.named_queries)

\* a file as ConfigObj reads it: unreadable, or a [named queries] section
\* (if any) and the scalar keys given before any section
FileConfig(error, section, top) == [ error |-> error, section |-> section, top |-> top ]

\* a directory entry: its name, whether it is a regular file, and its content
DirEntry(name, isfile, content) == [ name |-> name, isfile |-> isfile, content |-> content ]

\* the part of the file system the class looks at: one directory that exists,
\* whether it can be listed, and its entries
FileSystem(dir, readable, entries) == [ dir |-> dir, readable |-> readable, entries |-> entries ]

\* os.path.isdir
isdir(fs, path) == path = fs.dir

\* the orders in which os.listdir may return the entries of the directory
ListdirOrders(fs) ==
    { f \in [1..Cardinality(fs.entries) -> fs.entries] :
        \A i \in 1..Cardinality(fs.entries) : \A j \in 1..Cardinality(fs.entries) :
            i # j => f[i] # f[j] }

\* the entry of that name
entry_of(fs, name) == CHOOSE e \in fs.entries : e.name = name

\* _get_include_dir: explicit argument, includedir directive, default directory
get_include_dir(self) ==
    IF Truthy(self.include_dir) THEN self.include_dir
    ELSE LET config_dir == IF Truthy(self.config.filename)
                           THEN Some(dirname(Val(self.config.filename))) ELSE None
             includedir == dict_get(section_of(self.config), "includedir")
         IN  IF Truthy(includedir)
             THEN IF Truthy(config_dir) /\ ~isabs(Val(includedir))
                  THEN Some(path_join(Val(config_dir), Val(includedir)))
                  ELSE includedir
             ELSE IF Truthy(config_dir)
             THEN Some(path_join(Val(config_dir), INCLUDE_DIR_NAME))
             ELSE None

\* _load_queries_from_file: self._included_queries after the call
load_queries_from_file(included_queries, file_config) ==
    IF file_config.error THEN included_queries
    ELSE LET in_section == IF IsNone(file_config.section) THEN <<>> ELSE Val(file_config.section)
             queries == IF Len(in_section) = 0 THEN file_config.top ELSE in_section
         IN  IF Len(queries) > 0 THEN dict_update(included_queries, queries)
             ELSE included_queries

RECURSIVE load_files(_, _, _)
\* for filename in files: self._load_queries_from_file(filepath)
load_files(included_queries, fs, files) ==
    IF Len(files) = 0 THEN included_queries
    ELSE load_files(load_queries_from_file(included_queries, entry_of(fs, files[1]).content),
                    fs, Tail(files))

RECURSIVE conf_files(_)
\* f for f in os.listdir(include_dir) if f.endswith(".conf") and os.path.isfile(...)
conf_files(listing) ==
    IF Len(listing) = 0 THEN <<>>
    ELSE (IF endswith(listing[1].name, ".conf") /\ listing[1].isfile
          THEN <<listing[1].name>> ELSE <<>>)
         \o conf_files(Tail(listing))

\* _load_included_queries, os.listdir returning the entries as `listing`
load_included_queries(self, fs, listing) ==
    LET include_dir == get_include_dir(self)
    IN  IF ~Truthy(include_dir) THEN self
        ELSE IF ~isdir(fs, Val(include_dir)) THEN self
        ELSE IF ~fs.readable THEN self
        ELSE [self EXCEPT !.included_queries =
                  load_files(self.included_queries, fs, sorted(conf_files(listing)))]

\* ExtendedNamedQueries(config, include_dir)
ExtendedNamedQueries(cfg, include_dir, fs, listing) ==
    load_included_queries([ config |-> cfg, include_dir |-> include_dir,
                            included_queries |-> <<>> ], fs, listing)

\* reload_includes that loads over the queries already held
reload_includes_keep(self, fs, listing) == load_included_queries(self, fs, listing)

\* reload_includes
reload_includes(self, fs, listing) ==
    load_included_queries([self EXCEPT !.included_queries = <<>>], fs, listing)

\* get_all
get_all(self) ==
    dict_update(self.included_queries, dict_without(section_of(self.config), DIRECTIVES))

\* list
list(self) ==
    sorted(dict_keys(dict_update(self.included_queries,
                                 dict_without(section_of(self.config), DIRECTIVES))))

\* get that looks at the included queries before the main config
get_include_first(self, name) ==
    IF name \in DIRECTIVES THEN None
    ELSE IF dict_has(self.included_queries, name) THEN dict_get(self.included_queries, name)
    ELSE dict_get(section_of(self.config), name)

\* get
get(self, name) ==
    IF name \in DIRECTIVES THEN None
    ELSE IF dict_has(section_of(self.config), name) THEN dict_get(section_of(self.config), name)
    ELSE dict_get(self.included_queries, name)

\* get_source
get_source(self, name) ==
    IF dict_has(section_of(self.config), name) THEN Some("config")
    ELSE IF dict_has(self.included_queries, name) THEN Some("include")
    ELSE None

(***************************************************************************)
(* One ExtendedNamedQueries instance over a directory that changes          *)
(***************************************************************************)
QueryFileNames == { None, Some("/c/config") }

\* [named queries] sections of the main config: absent, queries only, and
\* with the includedir directive (relative and absolute)
MainSections ==
    { None,
      Some(<< <<"a", "m1">> >>),
      Some(<< <<"includedir", "q.d">>, <<"a", "m1">> >>),
      Some(<< <<"includedir", "/x">>, <<"b", "m2">> >>) }

IncludeDirArgs == { None, Some("/x") }

Directories == { "/c/namedqueries.d", "/c/q.d", "/x" }

ConfNames == { "10.conf", "9.conf" }

\* contents of an include file: a [named queries] section; keys without a
\* section, one of them named like the directive; an empty section before
\* which a key is given; a file ConfigObj cannot read
FileContents ==
    { FileConfig(FALSE, Some(<< <<"a", "i1">>, <<"c", "i1">> >>), <<>>),
      FileConfig(FALSE, None, << <<"a", "i2">>, <<"includedir", "zz">> >>),
      FileConfig(FALSE, Some(<<>>), << <<"b", "i3">> >>),
      FileConfig(TRUE, None, <<>>) }

\* entries that are never loaded: a file without the .conf suffix, and a
\* directory whose name ends in .conf
OtherEntries ==
    { DirEntry("notes.txt", TRUE, FileConfig(FALSE, None, << <<"zz", "i4">> >>)),
      DirEntry("sub.conf", FALSE, FileConfig(TRUE, None, <<>>)) }

InitialEntries ==
    { {},
      { DirEntry("10.conf", TRUE, FileConfig(FALSE, None, << <<"a", "i2">>, <<"includedir", "zz">> >>)),
        DirEntry("9.conf", TRUE, FileConfig(FALSE, Some(<< <<"a", "i1">>, <<"c", "i1">> >>), <<>>)) } }

QueryNames == { "a", "b", "c", "zz", "includedir" }

NoInstance == [ config |-> MainConfig(None, None), include_dir |-> None, included_queries |-> <<>> ]

InitQueries ==
    /\ IdleCli
    /\ manager = NoManager
    /\ \E fn \in QueryFileNames : \E main \in MainSections : \E arg \in IncludeDirArgs :
       \E dir \in Directories : \E entries \in InitialEntries :
          call = [ op |-> "ExtendedNamedQueries", stage |-> "input",
                   config |-> MainConfig(fn, main), include_dir |-> arg,
                   fs |-> FileSystem(dir, TRUE, entries),
                   nq |-> NoInstance, last |-> "none" ]

\* nq = ExtendedNamedQueries.from_config(config, include_dir)
NqConstruct ==
    /\ call.op = "ExtendedNamedQueries" /\ call.stage = "input"
    /\ \E listing \in ListdirOrders(call.fs) :
          call' = [call EXCEPT !.stage = "ready", !.last = "construct",
                               !.nq = ExtendedNamedQueries(call.config, call.include_dir,
                                                           call.fs, listing)]
    /\ UNCHANGED cliVars

\* a .conf file is created in the directory, or written again with other content
NqWriteFile ==
    /\ call.op = "ExtendedNamedQueries" /\ call.stage = "ready"
    /\ \E name \in ConfNames : \E content \in FileContents :
          /\ DirEntry(name, TRUE, content) \notin call.fs.entries
          /\ call' = [call EXCEPT !.last = "fs",
                         !.fs.entries = { e \in @ : e.name # name }
                                            \cup { DirEntry(name, TRUE, content) }]
    /\ UNCHANGED cliVars

\* an entry that is not an include file is created in the directory
NqAddOther ==
    /\ call.op = "ExtendedNamedQueries" /\ call.stage = "ready"
    /\ \E e \in OtherEntries :
          /\ e \notin call.fs.entries
          /\ call' = [call EXCEPT !.last = "fs", !.fs.entries = @ \cup {e}]
    /\ UNCHANGED cliVars

\* an entry is removed from the directory
NqRemove ==
    /\ call.op = "ExtendedNamedQueries" /\ call.stage = "ready"
    /\ \E e \in call.fs.entries :
          call' = [call EXCEPT !.last = "fs", !.fs.entries = @ \ {e}]
    /\ UNCHANGED cliVars

\* the permission to list the directory is taken away or given back
NqChmod ==
    /\ call.op = "ExtendedNamedQueries" /\ call.stage = "ready"
    /\ call' = [call EXCEPT !.last = "fs", !.fs.readable = ~@]
    /\ UNCHANGED cliVars

\* nq.reload_includes()
NqReload ==
    /\ call.op = "ExtendedNamedQueries" /\ call.stage = "ready"
    /\ \E listing \in ListdirOrders(call.fs) :
          call' = [call EXCEPT !.last = "reload_includes",
                               !.nq = reload_includes(call.nq, call.fs, listing)]
    /\ UNCHANGED cliVars

NextQueries ==
    \/ NqConstruct
    \/ NqWriteFile
    \/ NqAddOther
    \/ NqRemove
    \/ NqChmod
    \/ NqReload

SpecQueries == InitQueries /\ [][NextQueries]_vars

(***************************************************************************)
(* Properties of ExtendedNamedQueries, checked under SpecQueries            *)
(***************************************************************************)
Constructed == call.op = "ExtendedNamedQueries" /\ call.stage = "ready"

\* the queries of the main config: its [named queries] keys other than the directive
MainQueries == dict_without(section_of(call.config), DIRECTIVES)

\* C23: a query of the main config takes precedence over an included query of
\* the same name: get(name) and get_all()[name] are the main config's value,
\* and a name that only the include files define is still retrievable, with
\* the included value.
C23_MainConfigPrecedence ==
    Constructed =>
        \A name \in QueryNames \ DIRECTIVES :
            /\ dict_has(MainQueries, name) =>
                  /\ get(call.nq, name) = dict_get(MainQueries, name)
                  /\ dict_get(get_all(call.nq), name) = dict_get(MainQueries, name)
            /\ (~dict_has(MainQueries, name) /\ dict_has(call.nq.included_queries, name)) =>
                  /\ ~IsNone(get(call.nq, name))
                  /\ get(call.nq, name) = dict_get(call.nq.included_queries, name)
                  /\ dict_get(get_all(call.nq), name) = dict_get(call.nq.included_queries, name)

\* C23 witness: "a" is defined in the main config and, with another value, in
\* an include file; "c" only in an include file.
C23_Witness ==
    /\ Constructed
    /\ dict_get(MainQueries, "a") = Some("m1")
    /\ dict_get(call.nq.included_queries, "a") = Some("i1")
    /\ get(call.nq, "a") = Some("m1")
    /\ ~dict_has(MainQueries, "c")
    /\ get(call.nq, "c") = Some("i1")

\* the include directory of the instance exists and can be listed
DirectoryLoaded ==
    /\ Truthy(get_include_dir(call.nq))
    /\ isdir(call.fs, Val(get_include_dir(call.nq)))
    /\ call.fs.readable

\* the queries an include file provides
QueriesOf(content) ==
    IF content.error THEN <<>>
    ELSE IF ~IsNone(content.section) /\ Len(Val(content.section)) > 0 THEN Val(content.section)
    ELSE content.top

\* the regular .conf files of the directory that define the name
Defining(name) ==
    { e \in call.fs.entries :
        e.isfile /\ endswith(e.name, ".conf") /\ dict_has(QueriesOf(e.content), name) }

\* C24: after construction or reload_includes, whatever the order in which the
\* file system listed the files, a name has the value given by the file that
\* sorts last among the include files defining it, and a name that no include
\* file defines is not among the included queries.
C24_LastSortedFileWins ==
    (Constructed /\ call.last \in {"construct", "reload_includes"} /\ DirectoryLoaded) =>
        \A name \in QueryNames :
            IF Defining(name) = {}
            THEN ~dict_has(call.nq.included_queries, name)
            ELSE \E w \in Defining(name) :
                    /\ \A e \in Defining(name) : e = w \/ str_lt(e.name, w.name)
                    /\ dict_get(call.nq.included_queries, name) = dict_get(QueriesOf(w.content), name)

\* C24 witness: 10.conf and 9.conf both define "a"; 9.conf sorts last and its
\* value is the one loaded.
C24_Witness ==
    /\ Constructed
    /\ call.last = "construct"
    /\ DirectoryLoaded
    /\ { e.name : e \in Defining("a") } = { "10.conf", "9.conf" }
    /\ dict_get(QueriesOf(entry_of(call.fs, "10.conf").content), "a") = Some("i2")
    /\ dict_get(call.nq.included_queries, "a") = Some("i1")

\* C25: the directive name includedir never appears as a query, whatever the
\* main config and the include files hold: it is not in list(), not a key of
\* get_all(), and get("includedir") is None.
C25_DirectiveNeverAQuery ==
    Constructed =>
        /\ \A i \in 1..Len(list(call.nq)) : list(call.nq)[i] # "includedir"
        /\ ~dict_has(get_all(call.nq), "includedir")
        /\ IsNone(get(call.nq, "includedir"))

\* what newly constructed instances would load from the directory as it is in c
FreshLoads(c) ==
    { ExtendedNamedQueries(c.config, c.include_dir, c.fs, listing).included_queries :
        listing \in ListdirOrders(c.fs) }

\* C26: the included queries are a snapshot.  A step that changes the
\* directory changes neither the included queries nor list() nor any get(name);
\* after construction and after every reload_includes the included queries are
\* exactly what a newly constructed instance would load from the directory.
C26_SnapshotUntilReload ==
    /\ [][ (Constructed /\ call'.stage = "ready" /\ call'.fs # call.fs) =>
              /\ call'.nq.included_queries = call.nq.included_queries
              /\ list(call'.nq) = list(call.nq)
              /\ \A name \in QueryNames : get(call'.nq, name) = get(call.nq, name) ]_vars
    /\ []( (Constructed /\ call.last \in {"construct", "reload_includes"}) =>
              FreshLoads(call) = { call.nq.included_queries } )

\* C26 witness: the directory has changed since the last load, and the
\* instance still holds queries that a new instance would not load.
C26_Witness ==
    /\ Constructed
    /\ call.last = "fs"
    /\ Len(call.nq.included_queries) > 0
    /\ call.nq.included_queries \notin FreshLoads(call)
    /\ \E name \in QueryNames : ~IsNone(get(call.nq, name)) /\ Defining(name) = {}
                                  /\ ~dict_has(MainQueries, name)

\* C30: the four views agree on every name: name in list() iff name is a key
\* of get_all() iff get(name) is not None iff get_source(name) is not None;
\* list() is the sorted key set of get_all(); get(name) is get_all()[name] for
\* every name present.
C30_ViewsAgree ==
    Constructed =>
        /\ list(call.nq) = sorted(dict_keys(get_all(call.nq)))
        /\ \A name \in QueryNames :
              LET in_list == \E i \in 1..Len(list(call.nq)) : list(call.nq)[i] = name
                  in_all == dict_has(get_all(call.nq), name)
              IN  /\ in_list <=> in_all
                  /\ in_all <=> ~IsNone(get(call.nq, name))
                  /\ in_all <=> ~IsNone(get_source(call.nq, name))
                  /\ in_all => get(call.nq, name) = dict_get(get_all(call.nq), name)

=============================================================================
